---- MODULE Spec2Model ----
(***************************************************************************)
(* TIC stream decoder (lains/ticdecodecpp): the Unframer (STX..ETX frames) *)
(* in its two emission modes, and the DatasetExtractor (LF..CR datasets),  *)
(* stand-alone and chained behind an Unframer, driven by pushBytes calls;   *)
(* and the DatasetView built over the bytes of one dataset.                *)
(***************************************************************************)
EXTENDS Integers, Sequences, FiniteSets, TLC

\* ---------------------------------------------------------------- constants
STX == 2
ETX == 3
LF == 10
CR == 13
START_MARKER == STX
END_MARKER == ETX
MAX_FRAME_SIZE == 2048
DE_START_MARKER == LF
\* The header declaring the two end markers is not among the sources; the
\* values are those of the specification (section 6), which the comments of
\* DatasetExtractor.cpp (lines 45-49) corroborate.
END_MARKER_TIC_1 == CR
END_MARKER_TIC_2 == LF
MAX_DATASET_SIZE == 128
HT == 9
SP == 32
HORODATE_SIZE == 13

\* ------------------------------------------------------------------- bounds
MaxStreamLen == 5   \* bytes pushed in one run of Spec
MaxFramedLen == 8   \* bytes pushed in one run of SpecFramed
MaxOverflowPushes == 4  \* pushBytes calls in one run of SpecFrameOverflow
                        \* and of SpecDatasetOverflow
MaxExtractorLen == 4    \* bytes pushed in one run of SpecExtractor
MaxResets == 2          \* reset() calls in one run of SpecExtractor
MaxViewLen == 7         \* bytes of the buffer a DatasetView is built over
MaxFieldLen == 2        \* bytes of the label and of the data of a dataset
                        \* put together from its fields
MaxLeadingZeros == 2    \* '0' bytes ahead of a value handed to
                        \* uint32FromValueBuffer
MaxTailLen == 2         \* bytes of that value that follow a prefix of
                        \* "429496729"
MaxRunLen == 2          \* bytes of each of the three runs of a dataset put
                        \* together from a label, a middle run and a rest
MaxCallLen == 4         \* bytes of the buffer of a pushBytes call followed
                        \* through its self-calls

\* the bytes pushed: the four markers and one byte that is no marker ('A')
Bytes == {STX, ETX, LF, CR, 65}

VARIABLES
    chunks,     \* the buffers handed to pushBytes so far, in call order
    tu,         \* a TIC::Unframer built with the on-the-fly macro defined
    tuCached,   \* a TIC::Unframer built with the macro undefined
    de,         \* a stand-alone TIC::DatasetExtractor fed the same buffers
    ret,        \* the value returned by the last pushBytes of each object
    resets,     \* the reset() calls made on de so far: for each, how many
                \* buffers had been pushed and how many datasets handed over
    dataset,    \* the bytes a TIC::DatasetView is built over
    dv,         \* that TIC::DatasetView, once built
    dvLf,       \* the TIC::DatasetView built over an LF and the same bytes
    fields,     \* the label, horodate, data and delimiter the bytes of
                \* dataset were put together from
    bytes1,     \* the bytes handed to TIC::Horodate::fromLabelBytes
    horodate1,  \* the TIC::Horodate it returned
    bytes2,     \* the bytes of a second call of fromLabelBytes
    horodate2,  \* the TIC::Horodate of the second call
    cmp,        \* what the six comparison operators say of the two
    valueBuf,   \* the bytes handed to uint32FromValueBuffer
    value,      \* what uint32FromValueBuffer computed from them
    stack,      \* one pushBytes call followed through its self-calls: the
                \* arguments of the call about to be entered, and those of
                \* the calls entered so far
    crc,        \* the bytes handed to computeCRC and what it returned
    str         \* what toString() returned for horodate1

streamVars == <<chunks, tu, tuCached, de, ret, resets>>

viewVars == <<dataset, dv, dvLf, fields>>

horodateVars == <<bytes1, horodate1, bytes2, horodate2, cmp>>

valueVars == <<valueBuf, value>>

callVars == <<stack>>

crcVars == <<crc>>

stringVars == <<str>>

vars == <<streamVars, viewVars, horodateVars, valueVars, callVars, crcVars, stringVars>>

\* ------------------------------------------------------------------ helpers
RECURSIVE Flatten(_)
Flatten(ss) == IF ss = <<>> THEN <<>> ELSE Head(ss) \o Flatten(Tail(ss))

Stream == Flatten(chunks)

\* memchr(buffer, c, len): 1-based index of the first c, 0 for a null result
\* a slip: the last occurrence, as memrchr finds it
Memchr_Last(buffer, c) ==
    IF \E i \in 1..Len(buffer) : buffer[i] = c
    THEN CHOOSE i \in 1..Len(buffer) :
            buffer[i] = c /\ \A j \in (i + 1)..Len(buffer) : buffer[j] # c
    ELSE 0

Memchr(buffer, c) ==
    IF \E i \in 1..Len(buffer) : buffer[i] = c
    THEN CHOOSE i \in 1..Len(buffer) :
            buffer[i] = c /\ \A j \in 1..(i - 1) : buffer[j] # c
    ELSE 0

\* --------------------------------------------------------- DatasetExtractor
DatasetExtractor ==
    [sync |-> FALSE, currentDataset |-> <<>>, datasets |-> <<>>]

\* a slip: the last byte of the buffer is never used
DE_getFreeBytes_OneShort(d) == MAX_DATASET_SIZE - 1 - Len(d.currentDataset)

\* a slip: the bytes already buffered are not counted
DE_getFreeBytes_WholeBuffer(d) == MAX_DATASET_SIZE

DE_getFreeBytes(d) == MAX_DATASET_SIZE - Len(d.currentDataset)

\* the test stub's callback: records the dataset it is handed
onDatasetExtracted(d, buf) == [d EXCEPT !.datasets = Append(@, buf)]

processCurrentDataset(d) == onDatasetExtracted(d, d.currentDataset)

\* a slip: the dataset is handed over whether complete or not
processIncomingDatasetBytes_HandsOverPartial(d, buffer, datasetComplete) ==
    LET maxCopy == DE_getFreeBytes(d)
        szCopy == IF Len(buffer) > maxCopy THEN maxCopy ELSE Len(buffer)
        d1 == [d EXCEPT !.currentDataset = @ \o SubSeq(buffer, 1, szCopy)]
    IN [d |-> processCurrentDataset(d1), used |-> szCopy]

processIncomingDatasetBytes(d, buffer, datasetComplete) ==
    LET maxCopy == DE_getFreeBytes(d)
        szCopy == IF Len(buffer) > maxCopy THEN maxCopy ELSE Len(buffer)
        d1 == [d EXCEPT !.currentDataset = @ \o SubSeq(buffer, 1, szCopy)]
    IN [d |-> IF datasetComplete THEN processCurrentDataset(d1) ELSE d1,
        used |-> szCopy]

\* a slip: the two probes in the other order
DE_endOfDataset_Tic2First(buffer) ==
    LET probeEndOfDataset2 == Memchr(buffer, END_MARKER_TIC_2)
    IN IF probeEndOfDataset2 # 0 THEN probeEndOfDataset2
       ELSE Memchr(buffer, END_MARKER_TIC_1)

\* the end of dataset probed in a buffer: END_MARKER_TIC_1 first, and
\* END_MARKER_TIC_2 only when the buffer holds no END_MARKER_TIC_1
DE_endOfDataset(buffer) ==
    LET probeEndOfDataset1 == Memchr(buffer, END_MARKER_TIC_1)
    IN IF probeEndOfDataset1 # 0 THEN probeEndOfDataset1
       ELSE Memchr(buffer, END_MARKER_TIC_2)

RECURSIVE DE_pushBytes(_, _)
DE_pushBytes(d, buffer) ==
    LET len == Len(buffer) IN
    IF len = 0 THEN [d |-> d, used |-> 0]
    ELSE IF ~d.sync THEN
        LET firstStartOfDataset == Memchr(buffer, DE_START_MARKER) IN
        IF firstStartOfDataset # 0
        THEN LET bytesToSkip == firstStartOfDataset - 1
                 rest == DE_pushBytes([d EXCEPT !.sync = TRUE],
                                      SubSeq(buffer, firstStartOfDataset + 1, len))
             IN [d |-> rest.d, used |-> bytesToSkip + 1 + rest.used]
        ELSE [d |-> d, used |-> len]
    ELSE
        LET endOfDataset == DE_endOfDataset(buffer) IN
        IF endOfDataset # 0
        THEN LET leadingBytesInPreviousDataset == endOfDataset - 1
                 done == processIncomingDatasetBytes(
                            d, SubSeq(buffer, 1, leadingBytesInPreviousDataset), TRUE)
                 d2 == [done.d EXCEPT !.currentDataset = <<>>, !.sync = FALSE]
                 rest == DE_pushBytes(d2, SubSeq(buffer, endOfDataset + 1, len))
             IN [d |-> rest.d, used |-> done.used + 1 + rest.used]
        ELSE processIncomingDatasetBytes(d, buffer, FALSE)

DE_isInSync(d) == d.sync

\* a slip: nextWriteInCurrentDataset is not set back to 0
DE_reset_KeepsBytes(d) == [d EXCEPT !.sync = FALSE]

DE_reset(d) == [d EXCEPT !.sync = FALSE, !.currentDataset = <<>>]

\* ------------------------------------------------- callbacks of the Unframer
\* The context of the callbacks is a DatasetExtractor (the wiring of
\* TicDatasetExtractor_tests.cpp); the calls are also logged, as the
\* FrameDecoderStub of TicUnframer_tests.cpp sees them.  "at" is the address
\* of the bytes handed over, as a position in the stream (0: the Unframer's
\* own buffer); for a frame completion it is the position of the marker that
\* ended the frame.
onNewFrameBytes(u, buf, at) ==
    [u EXCEPT !.calls = Append(@, [kind |-> "bytes", data |-> buf, at |-> at]),
              !.context = DE_pushBytes(@, buf).d]

\* a slip: the extractor is not reset at the end of a frame
onFrameComplete_NoReset(u, at) ==
    [u EXCEPT !.calls = Append(@, [kind |-> "complete", data |-> <<>>, at |-> at])]

onFrameComplete(u, at) ==
    [u EXCEPT !.calls = Append(@, [kind |-> "complete", data |-> <<>>, at |-> at]),
              !.context = DE_reset(@)]

\* ----------------------------------------------------------------- Unframer
Unframer ==
    [sync |-> FALSE, currentFrame |-> <<>>, calls |-> <<>>,
     context |-> DatasetExtractor]

\* a slip: the bytes already buffered are not counted
getFreeBytes_WholeBuffer(u) == MAX_FRAME_SIZE

getFreeBytes(u) == MAX_FRAME_SIZE - Len(u.currentFrame)

\* a slip: one byte short when forwarding on the fly
processIncomingFrameBytes_OneShort(u, buffer, at, onTheFly) ==
    IF onTheFly
    THEN [u |-> IF Len(buffer) > 1
                THEN onNewFrameBytes(u, SubSeq(buffer, 1, Len(buffer) - 1), at)
                ELSE u,
          used |-> Len(buffer)]
    ELSE LET maxCopy == getFreeBytes(u)
             szCopy == IF Len(buffer) > maxCopy THEN maxCopy ELSE Len(buffer)
         IN [u |-> [u EXCEPT !.currentFrame = @ \o SubSeq(buffer, 1, szCopy)],
             used |-> szCopy]

\* a slip: the cached branch returns len, as the on-the-fly one does
processIncomingFrameBytes_ReturnsLen(u, buffer, at, onTheFly) ==
    IF onTheFly
    THEN [u |-> IF Len(buffer) > 0 THEN onNewFrameBytes(u, buffer, at) ELSE u,
          used |-> Len(buffer)]
    ELSE LET maxCopy == getFreeBytes(u)
             szCopy == IF Len(buffer) > maxCopy THEN maxCopy ELSE Len(buffer)
         IN [u |-> [u EXCEPT !.currentFrame = @ \o SubSeq(buffer, 1, szCopy)],
             used |-> Len(buffer)]

\* a slip: the bytes are kept in currentFrame in both modes
processIncomingFrameBytes_AlwaysCached(u, buffer, at, onTheFly) ==
    LET maxCopy == getFreeBytes(u)
        szCopy == IF Len(buffer) > maxCopy THEN maxCopy ELSE Len(buffer)
    IN [u |-> [u EXCEPT !.currentFrame = @ \o SubSeq(buffer, 1, szCopy)],
        used |-> szCopy]

processIncomingFrameBytes(u, buffer, at, onTheFly) ==
    IF onTheFly
    THEN [u |-> IF Len(buffer) > 0 THEN onNewFrameBytes(u, buffer, at) ELSE u,
          used |-> Len(buffer)]
    ELSE LET maxCopy == getFreeBytes(u)
             szCopy == IF Len(buffer) > maxCopy THEN maxCopy ELSE Len(buffer)
         IN [u |-> [u EXCEPT !.currentFrame = @ \o SubSeq(buffer, 1, szCopy)],
             used |-> szCopy]

\* a slip: an empty frame is not reported at all
processCurrentFrame_SkipsEmpty(u, at, onTheFly) ==
    IF ~onTheFly /\ Len(u.currentFrame) = 0 THEN u
    ELSE LET u1 == IF onTheFly THEN u
                   ELSE [onNewFrameBytes(u, u.currentFrame, 0)
                            EXCEPT !.currentFrame = <<>>]
         IN onFrameComplete(u1, at)

\* a slip: the len > 0 guard of the on-the-fly branch applied to the cached one
processCurrentFrame_GuardsEmptyPayload(u, at, onTheFly) ==
    LET u1 == IF onTheFly \/ Len(u.currentFrame) = 0 THEN u
              ELSE [onNewFrameBytes(u, u.currentFrame, 0)
                       EXCEPT !.currentFrame = <<>>]
    IN onFrameComplete(u1, at)

\* a slip: nextWriteInCurrentFrame is not set back to 0
processCurrentFrame_KeepsBuffer(u, at, onTheFly) ==
    LET u1 == IF onTheFly THEN u ELSE onNewFrameBytes(u, u.currentFrame, 0)
    IN onFrameComplete(u1, at)

processCurrentFrame(u, at, onTheFly) ==
    LET u1 == IF onTheFly THEN u
              ELSE [onNewFrameBytes(u, u.currentFrame, 0)
                       EXCEPT !.currentFrame = <<>>]
    IN onFrameComplete(u1, at)

\* a slip: the frame is reported complete before its last bytes are taken
endOfFrame_CompleteFirst(u, buffer, leadingBytesInPreviousFrame, base, onTheFly) ==
    LET copied == processIncomingFrameBytes(
                     processCurrentFrame(
                        u, base + leadingBytesInPreviousFrame + 1, onTheFly),
                     SubSeq(buffer, 1, leadingBytesInPreviousFrame),
                     base + 1, onTheFly)
    IN [u |-> copied.u, used |-> copied.used]

\* lines 62-63: the bytes before the marker, then the end of the frame
endOfFrame(u, buffer, leadingBytesInPreviousFrame, base, onTheFly) ==
    LET copied == processIncomingFrameBytes(
                     u, SubSeq(buffer, 1, leadingBytesInPreviousFrame),
                     base + 1, onTheFly)
    IN [u |-> processCurrentFrame(
                 copied.u, base + leadingBytesInPreviousFrame + 1, onTheFly),
        used |-> copied.used]

RECURSIVE pushBytes(_, _, _, _)

\* a slip: the STX that ends a frame is skipped, as the ETX is
pushBytes_SkipsEndingStx(u, buffer, base, onTheFly) ==
    LET len == Len(buffer) IN
    IF len = 0 THEN [u |-> u, used |-> 0]
    ELSE IF ~u.sync THEN
        LET firstStx == Memchr(buffer, START_MARKER) IN
        IF firstStx # 0
        THEN LET bytesToSkip == firstStx - 1
                 rest == pushBytes([u EXCEPT !.sync = TRUE],
                                   SubSeq(buffer, firstStx + 1, len),
                                   base + firstStx, onTheFly)
             IN [u |-> rest.u, used |-> bytesToSkip + 1 + rest.used]
        ELSE [u |-> u, used |-> len]
    ELSE
        LET etx == Memchr(buffer, END_MARKER)
            stx == IF etx = 0 THEN Memchr(buffer, START_MARKER) ELSE 0
        IN IF etx # 0 \/ stx # 0
           THEN LET leading == IF etx # 0 THEN etx - 1 ELSE stx - 1
                    done == endOfFrame(u, buffer, leading, base, onTheFly)
                    leadingBytesInPreviousFrame == leading + 1
                    usedBytes == done.used + 1
                    u2 == [done.u EXCEPT !.sync = FALSE]
                IN IF leadingBytesInPreviousFrame < len
                   THEN LET rest == pushBytes(
                                u2, SubSeq(buffer, leadingBytesInPreviousFrame + 1, len),
                                base + leadingBytesInPreviousFrame, onTheFly)
                        IN [u |-> rest.u, used |-> usedBytes + rest.used]
                   ELSE [u |-> u2, used |-> usedBytes]
           ELSE processIncomingFrameBytes(u, buffer, base + 1, onTheFly)

\* buffer holds the stream's bytes base+1 .. base+Len(buffer)
pushBytes(u, buffer, base, onTheFly) ==
    LET len == Len(buffer) IN
    IF len = 0 THEN [u |-> u, used |-> 0]
    ELSE IF ~u.sync THEN
        LET firstStx == Memchr(buffer, START_MARKER) IN
        IF firstStx # 0
        THEN LET bytesToSkip == firstStx - 1
                 rest == pushBytes([u EXCEPT !.sync = TRUE],
                                   SubSeq(buffer, firstStx + 1, len),
                                   base + firstStx, onTheFly)
             IN [u |-> rest.u, used |-> bytesToSkip + 1 + rest.used]
        ELSE [u |-> u, used |-> len]
    ELSE
        LET etx == Memchr(buffer, END_MARKER)
            stx == IF etx = 0 THEN Memchr(buffer, START_MARKER) ELSE 0
        IN IF etx # 0 \/ stx # 0
           THEN LET leading == IF etx # 0 THEN etx - 1 ELSE stx - 1
                    done == endOfFrame(u, buffer, leading, base, onTheFly)
                    leadingBytesInPreviousFrame ==
                        IF etx # 0 THEN leading + 1 ELSE leading
                    usedBytes == IF etx # 0 THEN done.used + 1 ELSE done.used
                    u2 == [done.u EXCEPT !.sync = FALSE]
                IN IF leadingBytesInPreviousFrame < len
                   THEN LET rest == pushBytes(
                                u2, SubSeq(buffer, leadingBytesInPreviousFrame + 1, len),
                                base + leadingBytesInPreviousFrame, onTheFly)
                        IN [u |-> rest.u, used |-> usedBytes + rest.used]
                   ELSE [u |-> u2, used |-> usedBytes]
           ELSE processIncomingFrameBytes(u, buffer, base + 1, onTheFly)

isInSync(u) == u.sync

\* -------------------------------------------------------------- DatasetView
\* Pointers into the buffer are offsets from the datasetBuf handed to the
\* constructor: offset p is the byte datasetBuf[p + 1] of the sequence.
Horodate ==
    [isValid |-> FALSE, season |-> "Unknown", degradedTime |-> TRUE,
     year |-> 0, month |-> 0, day |-> 0, hour |-> 0, minute |-> 0, second |-> 0]

\* a slip: tens and units the wrong way round
TwoDigits_Swapped(bytes, i) == (bytes[i] - 48) + (bytes[i + 1] - 48) * 10

\* two decimal digits, as (bytes[i] - '0') * 10 + (bytes[i + 1] - '0')
TwoDigits(bytes, i) == (bytes[i] - 48) * 10 + (bytes[i + 1] - 48)

\* a slip: the lower-case season bytes are not read as a degraded clock
Seasoned_LowercaseNotDegraded(byte) ==
    CASE byte \in {72, 104} ->
            [Horodate EXCEPT !.isValid = TRUE, !.degradedTime = FALSE,
                             !.season = "Winter"]
      [] byte \in {69, 101} ->
            [Horodate EXCEPT !.isValid = TRUE, !.degradedTime = FALSE,
                             !.season = "Summer"]
      [] byte = SP ->
            [Horodate EXCEPT !.isValid = TRUE, !.degradedTime = FALSE,
                             !.season = "Unknown"]
      [] OTHER -> [Horodate EXCEPT !.season = "Malformed"]

\* lines 9-34: isValid set, then the switch on the season character
Seasoned(byte) ==
    CASE byte = 72 ->     \* 'H'
            [Horodate EXCEPT !.isValid = TRUE, !.degradedTime = FALSE,
                             !.season = "Winter"]
      [] byte = 104 ->    \* 'h'
            [Horodate EXCEPT !.isValid = TRUE, !.degradedTime = TRUE,
                             !.season = "Winter"]
      [] byte = 69 ->     \* 'E'
            [Horodate EXCEPT !.isValid = TRUE, !.degradedTime = FALSE,
                             !.season = "Summer"]
      [] byte = 101 ->    \* 'e'
            [Horodate EXCEPT !.isValid = TRUE, !.degradedTime = TRUE,
                             !.season = "Summer"]
      [] byte = SP ->
            [Horodate EXCEPT !.isValid = TRUE, !.degradedTime = FALSE,
                             !.season = "Unknown"]
      [] OTHER -> [Horodate EXCEPT !.season = "Malformed"]

fromLabelBytes(bytes) ==
    IF Len(bytes) # HORODATE_SIZE THEN Horodate
    ELSE
    LET seasoned == Seasoned(bytes[1])
        month == TwoDigits(bytes, 4)
        day == TwoDigits(bytes, 6)
        hour == TwoDigits(bytes, 8)
        minute == TwoDigits(bytes, 10)
        second == TwoDigits(bytes, 12)
    IN IF \E idx \in 2..Len(bytes) : bytes[idx] < 48 \/ bytes[idx] > 57
       THEN [seasoned EXCEPT !.isValid = FALSE]
       ELSE [seasoned EXCEPT
                !.year = 2000 + TwoDigits(bytes, 2),
                !.month = month, !.day = day, !.hour = hour,
                !.minute = minute, !.second = second,
                !.isValid = /\ seasoned.isValid
                            /\ ~(month > 12 \/ month = 0)
                            /\ ~(day > 31 \/ day = 0)
                            /\ ~(hour > 24)
                            /\ ~(minute >= 60)
                            /\ ~(second >= 60)]

RECURSIVE SumBytes(_)
SumBytes(bytes) ==
    IF bytes = <<>> THEN 0 ELSE Head(bytes) + SumBytes(Tail(bytes))

\* a slip: the mask keeps five bits
computeCRC_NarrowMask(bytes) ==
    LET S1 == SumBytes(bytes) % 256 IN (S1 % 32) + 32

\* a slip: the loop starts at the second byte
computeCRC_SkipsFirst(bytes) ==
    LET S1 == SumBytes(Tail(bytes)) % 256 IN (S1 % 64) + 32

\* a slip: 0x20 is not added
computeCRC_NoOffset(bytes) ==
    LET S1 == SumBytes(bytes) % 256 IN S1 % 64

\* a slip: the accumulator stops at 255 where a uint8_t wraps
RECURSIVE S1_Saturates(_)
S1_Saturates(bytes) ==
    IF bytes = <<>> THEN 0
    ELSE LET sum == S1_Saturates(SubSeq(bytes, 1, Len(bytes) - 1))
                    + bytes[Len(bytes)]
         IN IF sum > 255 THEN 255 ELSE sum

\* uint8_t S1 = 0; while (count--) S1 += *bytes: each addition wraps at 256
RECURSIVE S1(_)
S1(bytes) ==
    IF bytes = <<>> THEN 0
    ELSE (S1(SubSeq(bytes, 1, Len(bytes) - 1)) + bytes[Len(bytes)]) % 256

\* S1 & 0x3f is S1 % 64
computeCRC(bytes) == (S1(bytes) % 64) + 32

\* a slip: a CR at the end is taken for the checksum
checksumOf_KeepsCR(datasetBuf) ==
    LET start == IF datasetBuf[1] = LF THEN 1 ELSE 0
    IN [start |-> start, size |-> Len(datasetBuf) - start - 1,
        crcByte |-> datasetBuf[Len(datasetBuf)]]

\* lines 135-145: the optional LF skipped, the checksum byte taken from the
\* end, after the optional CR; what is left is size bytes from offset start
checksumOf(datasetBuf) ==
    LET start == IF datasetBuf[1] = LF THEN 1 ELSE 0
        size == Len(datasetBuf) - start
        cr == datasetBuf[start + size] = CR
    IN [start |-> start,
        size |-> IF cr THEN size - 2 ELSE size - 1,
        crcByte |-> IF cr THEN datasetBuf[start + size - 1]
                    ELSE datasetBuf[start + size]]

NewView(decodedType, labelBuffer, labelSz, dataBuffer, dataSz, horodate) ==
    [decodedType |-> decodedType,
     labelBuffer |-> labelBuffer, labelSz |-> labelSz,
     dataBuffer |-> dataBuffer, dataSz |-> dataSz, horodate |-> horodate]

DatasetView(datasetBuf) ==
    LET datasetBufSz == Len(datasetBuf)
        initial == NewView("Malformed", 0, datasetBufSz, 0, datasetBufSz, Horodate)
    IN
    IF datasetBufSz < 5 THEN initial
    ELSE
    LET trimmed == checksumOf(datasetBuf)
        start == trimmed.start
        delimiter == datasetBuf[start + trimmed.size]
    IN
    IF delimiter # HT /\ delimiter # SP THEN initial
    ELSE
    LET isTicStandard == delimiter = HT
        crcSz == IF isTicStandard THEN trimmed.size ELSE trimmed.size - 1
        computedCrc == computeCRC(SubSeq(datasetBuf, start + 1, start + crcSz))
        size == trimmed.size - 1
        rejected(type) == NewView(type, start, 0, start, 0, Horodate)
        labelDelim == Memchr(SubSeq(datasetBuf, start + 1, start + size), delimiter)
        trailingBytes == start + labelDelim
    IN
    IF computedCrc # trimmed.crcByte THEN rejected("WrongCRC")
    ELSE IF labelDelim = 0 THEN rejected("Malformed")
    ELSE IF trailingBytes >= start + size THEN rejected("Malformed")
    ELSE
    LET left == size - (trailingBytes - start)
        horodateDelim ==
            Memchr(SubSeq(datasetBuf, trailingBytes + 1, trailingBytes + left),
                   delimiter)
        horodateSz == horodateDelim - 1
        type == IF isTicStandard THEN "ValidStandard" ELSE "ValidHistorical"
    IN
    IF horodateDelim # 0
    THEN NewView(type, start, labelDelim - 1,
                 trailingBytes + horodateDelim, left - horodateSz - 1,
                 fromLabelBytes(SubSeq(datasetBuf, trailingBytes + 1,
                                       trailingBytes + horodateSz)))
    ELSE NewView(type, start, labelDelim - 1, trailingBytes, left, Horodate)

\* a slip: a view whose horodate is not valid is not valid either
isValid_NeedsHorodate(v) ==
    v.decodedType \in {"ValidHistorical", "ValidStandard"} /\ v.horodate.isValid

isValid(v) == v.decodedType \in {"ValidHistorical", "ValidStandard"}

NotBuilt == [decodedType |-> "none"]

NoFields == [delimiter |-> 0]

NotParsed == [season |-> "none"]

NotCompared == [eq |-> "none"]

NotConverted == [result |-> -1]

NotSummed == [result |-> -1]

NoString == <<-1>>

NoCall ==
    [object |-> "none", sync |-> FALSE, buffer |-> <<>>, entered |-> <<>>,
     returned |-> FALSE]

\* ---------------------------------------------------- uint32FromValueBuffer
\* A uint32_t is held as two 16-bit halves, [hi, lo] for hi * 65536 + lo, so
\* that no number of the model exceeds 31 bits; the exact result of an
\* operation that overflows 32 bits has a hi above 65535.
Half == 65536

Norm(hi, lo) == [hi |-> hi + lo \div Half, lo |-> lo % Half]

\* (uint32_t)-1
UINT32_MAX == [hi |-> Half - 1, lo |-> Half - 1]

Times10(x) == Norm(x.hi * 10, x.lo * 10)

Plus(x, d) == Norm(x.hi, x.lo + d)

Minus(x, d) ==
    IF x.lo >= d THEN [hi |-> x.hi, lo |-> x.lo - d]
    ELSE [hi |-> x.hi - 1, lo |-> x.lo + Half - d]

Div10(x) == [hi |-> x.hi \div 10, lo |-> ((x.hi % 10) * Half + x.lo) \div 10]

Greater(x, y) == x.hi > y.hi \/ (x.hi = y.hi /\ x.lo > y.lo)

\* what a uint32_t keeps of an exact result
Wrap32(x) == [hi |-> x.hi % Half, lo |-> x.lo]

\* a slip: the multiplication is not guarded
MulOverflows_Never(result) == FALSE

\* result > ((uint32_t)-1 / 10)
MulOverflows(result) == Greater(result, Div10(UINT32_MAX))

\* a slip: the addition is not guarded
AddOverflows_Never(result, digit) == FALSE

\* result > (uint32_t)-1 - (digit - '0')
AddOverflows(result, digit) == Greater(result, Minus(UINT32_MAX, digit - 48))

\* the loop from idx on; steps keeps the exact result of every
\* multiplication and addition made
RECURSIVE uint32Loop(_, _, _, _)
uint32Loop(buf, idx, result, steps) ==
    IF idx > Len(buf) THEN [result |-> result, steps |-> steps]
    ELSE
    LET digit == buf[idx]
        failed == [result |-> UINT32_MAX, steps |-> steps]
    IN
    IF digit < 48 \/ digit > 57 THEN failed
    ELSE IF MulOverflows(result) THEN failed
    ELSE
    LET product == Times10(result)
        times10 == Wrap32(product)
    IN
    IF AddOverflows(times10, digit) THEN failed
    ELSE
    LET sum == Plus(times10, digit - 48)
    IN uint32Loop(buf, idx + 1, Wrap32(sum), steps \o <<product, sum>>)

uint32FromValueBuffer(buf) == uint32Loop(buf, 1, Norm(0, 0), <<>>)

\* ------------------------------------------------------------ specification
Init ==
    /\ chunks = <<>>
    /\ tu = Unframer
    /\ tuCached = Unframer
    /\ de = DatasetExtractor
    /\ ret = [tu |-> 0, tuCached |-> 0, de |-> 0]
    /\ resets = <<>>
    /\ dataset = <<>>
    /\ dv = NotBuilt
    /\ dvLf = NotBuilt
    /\ fields = NoFields
    /\ bytes1 = <<>>
    /\ horodate1 = NotParsed
    /\ bytes2 = <<>>
    /\ horodate2 = NotParsed
    /\ cmp = NotCompared
    /\ valueBuf = <<>>
    /\ value = NotConverted
    /\ stack = NoCall
    /\ crc = NotSummed
    /\ str = NoString

\* one call of pushBytes(buffer, len) on each of the three objects
Push(buffer) ==
    LET base == Len(Stream)
        a == pushBytes(tu, buffer, base, TRUE)
        b == pushBytes(tuCached, buffer, base, FALSE)
        c == DE_pushBytes(de, buffer)
    IN /\ chunks' = Append(chunks, buffer)
       /\ tu' = a.u
       /\ tuCached' = b.u
       /\ de' = c.d
       /\ ret' = [tu |-> a.used, tuCached |-> b.used, de |-> c.used]
       /\ UNCHANGED <<resets, viewVars, horodateVars, valueVars, callVars, crcVars, stringVars>>

Buffers(alphabet, maxLen) ==
    UNION {[1..n -> alphabet] : n \in 1..maxLen}

PushAny ==
    \E buffer \in Buffers(Bytes, MaxStreamLen - Len(Stream)) : Push(buffer)

Next == PushAny

Spec == Init /\ [][Next]_vars

\* ------------------------------------------- well-formed streams of frames
\* The streams STX (LF payload CR)* ETX ... of the sample captures, payloads
\* holding no marker: where a prefix of such a stream stands, and the bytes
\* that may follow it.
PayloadBytes == {65, 66}

FramedAfter(q, b) ==
    CASE q = "out" -> "frame"
      [] q = "frame" -> IF b = LF THEN "dataset" ELSE "out"
      [] OTHER -> IF b = CR THEN "frame" ELSE "dataset"

FramedAllowed(q) ==
    CASE q = "out" -> {STX}
      [] q = "frame" -> {LF, ETX}
      [] OTHER -> PayloadBytes \cup {CR}

RECURSIVE FramedState(_, _)
FramedState(q, stream) ==
    IF stream = <<>> THEN q
    ELSE FramedState(FramedAfter(q, Head(stream)), Tail(stream))

RECURSIVE FramedBuffers(_, _)
FramedBuffers(q, n) ==
    IF n = 0 THEN {<<>>}
    ELSE UNION {{<<b>> \o t : t \in FramedBuffers(FramedAfter(q, b), n - 1)} :
                   b \in FramedAllowed(q)}

PushFramed ==
    \E n \in 1..(MaxFramedLen - Len(Stream)) :
        \E buffer \in FramedBuffers(FramedState("out", Stream), n) : Push(buffer)

NextFramed == PushFramed

SpecFramed == Init /\ [][NextFramed]_vars

\* ------------------------------------------------------------------ C1, C2
\* FrameDecoderStub: the frames a consumer assembles from the callbacks
RECURSIVE FrameDecoderStub(_, _, _)
FrameDecoderStub(calls, currentFrame, decoded) ==
    IF calls = <<>>
    THEN [currentFrame |-> currentFrame, decodedFramesList |-> decoded]
    ELSE IF Head(calls).kind = "bytes"
         THEN FrameDecoderStub(Tail(calls), currentFrame \o Head(calls).data, decoded)
         ELSE FrameDecoderStub(Tail(calls), <<>>, Append(decoded, currentFrame))

decodedFramesList(u) == FrameDecoderStub(u.calls, <<>>, <<>>).decodedFramesList

\* the same objects after one single pushBytes carrying the whole stream
WholeUnframer(onTheFly) == pushBytes(Unframer, Stream, 0, onTheFly).u
WholeExtractor == DE_pushBytes(DatasetExtractor, Stream).d

\* C1: whatever the partition of the stream into pushBytes buffers, the
\* Unframer hands over the same completed frames (payload of each, and how
\* many) as one pushBytes call carrying the whole stream does.
C1_UnframerChunkIndependence ==
    /\ decodedFramesList(tu) = decodedFramesList(WholeUnframer(TRUE))
    /\ decodedFramesList(tuCached) = decodedFramesList(WholeUnframer(FALSE))

\* C2: whatever the partition of the stream into pushBytes buffers, the
\* DatasetExtractor hands over the same datasets (count, order, bytes) as
\* one pushBytes call carrying the whole stream does.
C2_ExtractorChunkIndependence ==
    de.datasets = WholeExtractor.datasets

\* ---------------------------------------------------------------------- C3
\* The payloads of a well-formed stream, read off its grammar byte by byte:
\* those of the datasets closed so far, and those of the datasets of the
\* frames closed so far.
RECURSIVE FramedPayloads(_, _, _, _, _)
FramedPayloads(stream, q, closed, open, current) ==
    IF stream = <<>> THEN [datasets |-> closed \o open, inClosedFrames |-> closed]
    ELSE LET b == Head(stream)
             rest == Tail(stream)
         IN CASE q = "out" -> FramedPayloads(rest, "frame", closed, <<>>, <<>>)
              [] q = "frame" /\ b = LF ->
                    FramedPayloads(rest, "dataset", closed, open, <<>>)
              [] q = "frame" /\ b # LF ->
                    FramedPayloads(rest, "out", closed \o open, <<>>, <<>>)
              [] q = "dataset" /\ b = CR ->
                    FramedPayloads(rest, "frame", closed, Append(open, current), <<>>)
              [] OTHER ->
                    FramedPayloads(rest, "dataset", closed, open, Append(current, b))

StreamPayloads == FramedPayloads(Stream, "out", <<>>, <<>>, <<>>)

\* C3: on a stream of well-formed frames, in any chunking, the extractor
\* chained behind the Unframer hands over exactly the payloads of the stream,
\* each once, in order, byte for byte (as the bytes arrive in on-the-fly mode,
\* frame by frame in cached mode).
C3_FramedStreamDatasets ==
    /\ tu.context.datasets = StreamPayloads.datasets
    /\ tuCached.context.datasets = StreamPayloads.inClosedFrames

C3_Witness ==
    /\ FramedState("out", Stream) = "out"
    /\ Len(chunks) >= 3
    /\ tu.context.datasets = <<<<65>>, <<66>>>>
    /\ tuCached.context.datasets = <<<<65>>, <<66>>>>

\* ------------------------------------------------------- frames by position
BytesCalls(u) == SelectSeq(u.calls, LAMBDA c : c.kind = "bytes")
CompleteCalls(u) == SelectSeq(u.calls, LAMBDA c : c.kind = "complete")

\* the positions of the markers that ended the frames completed so far
FrameEnds(u) == [k \in 1..Len(CompleteCalls(u)) |-> CompleteCalls(u)[k].at]

FirstStxAfter(p) ==
    IF \E i \in (p + 1)..Len(Stream) : Stream[i] = STX
    THEN CHOOSE i \in (p + 1)..Len(Stream) :
            Stream[i] = STX /\ \A j \in (p + 1)..(i - 1) : Stream[j] # STX
    ELSE 0

\* the STX that opens the frame following the marker at prevEnd (0: none yet):
\* that marker itself when it is an STX, else the next STX of the stream
FrameOpen(prevEnd) ==
    IF prevEnd > 0 /\ Stream[prevEnd] = STX THEN prevEnd
    ELSE FirstStxAfter(prevEnd)

PreviousEnd(ends, k) == IF k = 1 THEN 0 ELSE ends[k - 1]

\* the bytes strictly between the opening STX of the k-th completed frame and
\* the marker that ended it
FramePayload(ends, k) ==
    SubSeq(Stream, FrameOpen(PreviousEnd(ends, k)) + 1, ends[k] - 1)

\* the bytes received since the opening STX of the frame in progress
OpenFramePayload(ends) ==
    LET open == FrameOpen(PreviousEnd(ends, Len(ends) + 1))
    IN IF open = 0 THEN <<>> ELSE SubSeq(Stream, open + 1, Len(Stream))

\* ---------------------------------------------------------------------- C4
\* C4: the completion of a frame comes after every onNewFrameBytes call that
\* carries bytes received before the marker ending that frame, and before
\* every call that carries bytes received after it; payload bytes are handed
\* over in stream order.
C4_EmissionOrder ==
    \A i \in 1..Len(tu.calls) : \A j \in (i + 1)..Len(tu.calls) :
        LET a == tu.calls[i]
            b == tu.calls[j]
        IN CASE a.kind = "bytes" /\ b.kind = "bytes" -> a.at + Len(a.data) <= b.at
             [] a.kind = "bytes" /\ b.kind = "complete" -> a.at + Len(a.data) <= b.at
             [] a.kind = "complete" /\ b.kind = "bytes" -> a.at < b.at
             [] OTHER -> a.at < b.at

C4_Witness ==
    /\ Len(tu.calls) >= 4
    /\ tu.calls[1].kind = "bytes" /\ tu.calls[2].kind = "bytes"
    /\ tu.calls[3].kind = "complete" /\ tu.calls[4].kind = "bytes"

\* ---------------------------------------------------------------------- C5
\* C5: in on-the-fly mode the payloads handed over for a completed frame,
\* put end to end, are exactly the bytes of the stream strictly between the
\* frame's opening STX and the marker that ended it; the bytes handed over
\* for the frame in progress are those received since its opening STX; and
\* so no byte received out of sync is handed over.
C5_PayloadExactness ==
    LET stub == FrameDecoderStub(tu.calls, <<>>, <<>>)
        ends == FrameEnds(tu)
    IN /\ \A k \in 1..Len(ends) :
             stub.decodedFramesList[k] = FramePayload(ends, k)
       /\ stub.currentFrame = OpenFramePayload(ends)
       /\ \A i \in 1..Len(tu.calls) :
             LET c == tu.calls[i]
             IN c.kind = "bytes" =>
                   c.data = SubSeq(Stream, c.at, c.at + Len(c.data) - 1)

C5_Witness ==
    /\ Len(Stream) = 5 /\ Stream[1] # STX /\ Stream[2] = STX
    /\ Len(BytesCalls(tu)) = 2
    /\ decodedFramesList(tu) = <<<<65, LF>>>>

\* ---------------------------------------------------------------------- C6
\* C6: no byte handed to onNewFrameBytes is an STX or an ETX, in either mode.
C6_NoMarkerInPayload ==
    \A u \in {tu, tuCached} : \A i \in 1..Len(u.calls) :
        \A n \in 1..Len(u.calls[i].data) : u.calls[i].data[n] \notin {STX, ETX}

\* ---------------------------------------------------------------------- C7
\* position p of the stream lies inside a frame: an STX came before it and
\* no ETX since
InsideFrameAt(p) ==
    \E s \in 1..(p - 1) :
        Stream[s] = STX /\ \A j \in (s + 1)..(p - 1) : Stream[j] # ETX

\* C7: in on-the-fly mode every STX that arrives inside a frame ends that
\* frame (onFrameComplete is called at that STX, which is not handed over as
\* payload) and opens the next one, so that the Unframer is in sync after it.
C7_RestartOnMidFrameStx ==
    \A p \in 1..Len(Stream) :
        (Stream[p] = STX /\ InsideFrameAt(p)) =>
            /\ \E i \in 1..Len(tu.calls) :
                  tu.calls[i].kind = "complete" /\ tu.calls[i].at = p
            /\ \A i \in 1..Len(tu.calls) :
                  tu.calls[i].kind = "bytes" =>
                     ~(tu.calls[i].at <= p /\ p < tu.calls[i].at + Len(tu.calls[i].data))
            /\ (p = Len(Stream) => isInSync(tu))

\* ---------------------------------------------------------------------- C8
\* the ETX bytes of the stream that arrived inside a frame, a frame being
\* taken to run from an STX to the next ETX
EtxInsideFrame == {p \in 1..Len(Stream) : Stream[p] = ETX /\ InsideFrameAt(p)}

\* C8 as claimed: in cached mode onFrameComplete is called once per ETX
\* received in sync, and an STX inside a frame does not split it.
C8_CachedCompleteCountIsEtxCount ==
    Len(CompleteCalls(tuCached)) = Cardinality(EtxInsideFrame)

\* The frame ends of a run read off its buffers byte by byte: in sync, an ETX
\* ends the frame; an STX ends it, and opens the next one, when no ETX
\* follows it in the same buffer; out of sync, an STX opens a frame.
RECURSIVE FrameEndsInBuffer(_, _, _)
FrameEndsInBuffer(buffer, i, sync) ==
    IF i > Len(buffer) THEN [count |-> 0, sync |-> sync]
    ELSE LET etxFollows == \E j \in i..Len(buffer) : buffer[j] = ETX
             ends == sync /\ (buffer[i] = ETX \/ (buffer[i] = STX /\ ~etxFollows))
             after == CASE buffer[i] = STX -> TRUE
                        [] buffer[i] = ETX -> FALSE
                        [] OTHER -> sync
             rest == FrameEndsInBuffer(buffer, i + 1, after)
         IN [count |-> rest.count + (IF ends THEN 1 ELSE 0), sync |-> rest.sync]

RECURSIVE FrameEndsInBuffers(_, _)
FrameEndsInBuffers(buffers, sync) ==
    IF buffers = <<>> THEN [count |-> 0, sync |-> sync]
    ELSE LET first == FrameEndsInBuffer(Head(buffers), 1, sync)
             rest == FrameEndsInBuffers(Tail(buffers), first.sync)
         IN [count |-> first.count + rest.count, sync |-> rest.sync]

\* C8 amended: in cached mode the number of onFrameComplete calls is the
\* number of ETX bytes received in sync plus the number of STX bytes
\* received in sync that no ETX follows in the same pushBytes buffer; such
\* an STX does split the frame.
C8_CachedCompleteCount ==
    LET expected == FrameEndsInBuffers(chunks, FALSE)
    IN /\ Len(CompleteCalls(tuCached)) = expected.count
       /\ isInSync(tuCached) = expected.sync

C8_Witness ==
    /\ Len(CompleteCalls(tuCached)) = 2
    /\ Cardinality({p \in 1..Len(Stream) : Stream[p] = ETX}) = 1
    /\ \E i \in 1..Len(tuCached.calls) : tuCached.calls[i].data = <<STX>>

\* ---------------------------------------------------------------------- C9
\* C9: in cached mode the callbacks strictly alternate, onNewFrameBytes then
\* onFrameComplete, one pair per frame ended; the onNewFrameBytes of a pair
\* carries the whole payload of the frame, and nothing of the frame in
\* progress has been handed over: it is all in the internal buffer.
C9_CachedEmissionPattern ==
    LET ends == FrameEnds(tuCached)
    IN /\ Len(tuCached.calls) = 2 * Len(ends)
       /\ \A k \in 1..Len(ends) :
             /\ tuCached.calls[2 * k - 1].kind = "bytes"
             /\ tuCached.calls[2 * k - 1].data = FramePayload(ends, k)
             /\ tuCached.calls[2 * k].kind = "complete"
       /\ tuCached.currentFrame = OpenFramePayload(ends)

C9_Witness ==
    /\ Len(chunks) >= 3
    /\ Len(tuCached.calls) = 4
    /\ tuCached.calls[1].data = <<65>>
    /\ tuCached.calls[3].data = <<>>

\* --------------------------------------------------------------------- C10
\* C10: with no frame beyond MAX_FRAME_SIZE, the two modes complete the same
\* frames: as many, ended by the same markers, each with the same payload.
C10_ModesEquivalent ==
    /\ decodedFramesList(tuCached) = decodedFramesList(tu)
    /\ FrameEnds(tuCached) = FrameEnds(tu)
    /\ isInSync(tuCached) = isInSync(tu)

C10_Witness ==
    /\ Len(chunks) >= 2
    /\ Len(decodedFramesList(tu)) = 2
    /\ decodedFramesList(tu)[1] # <<>>
    /\ Len(BytesCalls(tu)) < Len(BytesCalls(tuCached))
    /\ \A k \in 1..2 : Len(decodedFramesList(tu)[k]) <= MAX_FRAME_SIZE

\* ------------------------------------------ frames beyond MAX_FRAME_SIZE
\* Runs that take a frame to the capacity of the cached Unframer's buffer:
\* the first buffer opens a frame and fills it up to one byte short of
\* MAX_FRAME_SIZE; the next ones are that buffer again, or short buffers of
\* markers and of a payload byte ('B').
Run(b, n) == [i \in 1..n |-> b]

FrameFill == <<STX>> \o Run(65, MAX_FRAME_SIZE - 1)

FrameOverflowBuffers ==
    IF chunks = <<>> THEN {FrameFill}
    ELSE {FrameFill} \cup Buffers({STX, ETX, 66}, 2)

PushFrameOverflow ==
    /\ Len(chunks) < MaxOverflowPushes
    /\ \E buffer \in FrameOverflowBuffers : Push(buffer)

NextFrameOverflow == PushFrameOverflow

SpecFrameOverflow == Init /\ [][NextFrameOverflow]_vars

\* --------------------------------------------------------------------- C11
FirstBytes(s, n) == IF Len(s) > n THEN SubSeq(s, 1, n) ELSE s

\* C11: in cached mode, of the payload of a frame only the first
\* MAX_FRAME_SIZE bytes are kept: the frame is handed over with exactly
\* those when it ends, the frame in progress holds exactly those, the frames
\* end at the same markers and the Unframer is in sync exactly as the
\* on-the-fly one (which drops nothing), and the next frame starts from an
\* empty buffer.
C11_CachedOverflow ==
    LET ends == FrameEnds(tuCached)
    IN /\ Len(tuCached.calls) = 2 * Len(ends)
       /\ \A k \in 1..Len(ends) :
             tuCached.calls[2 * k - 1].data =
                FirstBytes(FramePayload(ends, k), MAX_FRAME_SIZE)
       /\ tuCached.currentFrame =
             FirstBytes(OpenFramePayload(ends), MAX_FRAME_SIZE)
       /\ ends = FrameEnds(tu)
       /\ isInSync(tuCached) = isInSync(tu)

C11_Witness ==
    LET ends == FrameEnds(tuCached)
    IN /\ Len(ends) = 2
       /\ Len(FramePayload(ends, 1)) > MAX_FRAME_SIZE
       /\ Len(tuCached.calls[1].data) = MAX_FRAME_SIZE
       /\ tuCached.calls[3].data = <<66>>

\* --------------------------------------------------------------------- C13
\* what a frame of len payload bytes loses to the capacity of the buffer
Excess(len) == IF len > MAX_FRAME_SIZE THEN len - MAX_FRAME_SIZE ELSE 0

RECURSIVE SumExcess(_, _)
SumExcess(ends, k) ==
    IF k = 0 THEN 0
    ELSE Excess(Len(FramePayload(ends, k))) + SumExcess(ends, k - 1)

\* the payload bytes among the first n bytes of the stream that the cached
\* Unframer had no room for: those beyond the first MAX_FRAME_SIZE of their
\* frame
DroppedWithin(n) ==
    LET ends == FrameEnds(tuCached)
        done == Cardinality({k \in 1..Len(ends) : ends[k] <= n})
        open == FrameOpen(PreviousEnd(ends, done + 1))
    IN SumExcess(ends, done)
          + (IF open = 0 \/ open > n THEN 0 ELSE Excess(n - open))

LastBuffer == chunks[Len(chunks)]

\* C13: a pushBytes call of the Unframer returns len less the payload bytes
\* of that call it dropped for lack of room: len itself in on-the-fly mode,
\* and in cached mode when nothing was dropped; never more than len.
C13_PushBytesReturnValue ==
    chunks # <<>> =>
        LET len == Len(LastBuffer)
            dropped == DroppedWithin(Len(Stream)) - DroppedWithin(Len(Stream) - len)
        IN /\ ret.tu = len
           /\ ret.tuCached = len - dropped
           /\ ret.tuCached <= len

C13_Witness ==
    /\ Len(chunks) = 2
    /\ LastBuffer = <<66, 66>>
    /\ ret.tu = 2
    /\ ret.tuCached = 1
    /\ Len(tuCached.currentFrame) = MAX_FRAME_SIZE

\* --------------------------------------- datasets beyond MAX_DATASET_SIZE
\* Runs that take a dataset to the capacity of the DatasetExtractor's
\* buffer: the first buffer opens a dataset and fills it up to one byte
\* short of MAX_DATASET_SIZE; the next ones are that buffer again, or short
\* buffers of markers and of a payload byte ('B').
DatasetFill == <<LF>> \o Run(65, MAX_DATASET_SIZE - 1)

DatasetOverflowBuffers ==
    IF chunks = <<>> THEN {DatasetFill}
    ELSE {DatasetFill} \cup Buffers({LF, CR, 66}, 2)

PushDatasetOverflow ==
    /\ Len(chunks) < MaxOverflowPushes
    /\ \E buffer \in DatasetOverflowBuffers : Push(buffer)

NextDatasetOverflow == PushDatasetOverflow

SpecDatasetOverflow == Init /\ [][NextDatasetOverflow]_vars

\* ----------------------------------------------- datasets read byte by byte
\* What the stand-alone extractor is expected to have done, read off the
\* history of its calls marker by marker.  Out of sync, an LF opens a
\* dataset and nothing else counts.  In sync, a CR closes the dataset; an LF
\* closes it when no CR follows it in the same pushBytes buffer
\* (DatasetExtractor.cpp:51-60: the LF is probed only in a buffer without
\* CR); any other byte is payload, kept while the dataset holds less than
\* MAX_DATASET_SIZE bytes and dropped afterwards.  reset() leaves the
\* dataset in progress and goes out of sync.  "dropped" counts the bytes
\* dropped from the last buffer.
NothingExpected ==
    [sync |-> FALSE, currentDataset |-> <<>>, datasets |-> <<>>, dropped |-> 0]

ExpectedAfterPayload(r, bytes) ==
    IF ~r.sync THEN r
    ELSE LET room == MAX_DATASET_SIZE - Len(r.currentDataset)
             kept == IF Len(bytes) > room THEN room ELSE Len(bytes)
         IN [r EXCEPT !.currentDataset = @ \o SubSeq(bytes, 1, kept),
                      !.dropped = @ + Len(bytes) - kept]

ExpectedAfterMarker(r, b, crFollows) ==
    CASE r.sync /\ (b = CR \/ ~crFollows) ->
            [r EXCEPT !.sync = FALSE, !.currentDataset = <<>>,
                      !.datasets = Append(@, r.currentDataset)]
      [] r.sync -> ExpectedAfterPayload(r, <<b>>)
      [] b = LF -> [r EXCEPT !.sync = TRUE]
      [] OTHER -> r

\* the first LF or CR of buffer at or after i; Len(buffer) + 1 when none
NextDatasetMarker(buffer, i) ==
    LET at == {j \in i..Len(buffer) : buffer[j] \in {LF, CR}}
    IN IF at = {} THEN Len(buffer) + 1
       ELSE CHOOSE j \in at : \A k \in at : j <= k

RECURSIVE ExpectedAfterBuffer(_, _, _)
ExpectedAfterBuffer(r, buffer, i) ==
    IF i > Len(buffer) THEN r
    ELSE LET m == NextDatasetMarker(buffer, i)
             r1 == ExpectedAfterPayload(r, SubSeq(buffer, i, m - 1))
         IN IF m > Len(buffer) THEN r1
            ELSE ExpectedAfterBuffer(
                    ExpectedAfterMarker(
                       r1, buffer[m],
                       \E j \in (m + 1)..Len(buffer) : buffer[j] = CR),
                    buffer, m + 1)

ResetAfter(n) == \E k \in 1..Len(resets) : resets[k].pushed = n

ExpectedAfterReset(r, n) ==
    IF ResetAfter(n) THEN [r EXCEPT !.sync = FALSE, !.currentDataset = <<>>]
    ELSE r

\* after the first n pushBytes calls and the reset() calls made up to then
RECURSIVE ExpectedAfter(_)
ExpectedAfter(n) ==
    IF n = 0 THEN ExpectedAfterReset(NothingExpected, 0)
    ELSE ExpectedAfterReset(
            ExpectedAfterBuffer(
               [ExpectedAfter(n - 1) EXCEPT !.dropped = 0], chunks[n], 1), n)

Expected == ExpectedAfter(Len(chunks))

\* --------------------------------------------------------------------- C12
\* C12: of the payload of a dataset only the first MAX_DATASET_SIZE bytes
\* are kept; the dataset is handed over once, with exactly those, when its
\* end marker comes; a pushBytes call that dropped bytes returns its len
\* less the bytes dropped; the next dataset starts from an empty buffer.
C12_DatasetOverflow ==
    /\ de.datasets = Expected.datasets
    /\ de.currentDataset = Expected.currentDataset
    /\ DE_isInSync(de) = Expected.sync
    /\ \A k \in 1..Len(de.datasets) : Len(de.datasets[k]) <= MAX_DATASET_SIZE
    /\ chunks # <<>> =>
          /\ ret.de = Len(LastBuffer) - Expected.dropped
          /\ Expected.dropped > 0 => ret.de < Len(LastBuffer)

C12_Witness ==
    /\ Len(chunks) = 4
    /\ chunks[2] = <<66, 66>>
    /\ chunks[3] = <<CR, LF>>
    /\ Len(de.datasets) = 2
    /\ Len(de.datasets[1]) = MAX_DATASET_SIZE
    /\ de.datasets[1][MAX_DATASET_SIZE] = 66
    /\ de.datasets[2] = <<66>>

\* ------------------------------------------- the extractor with reset()
\* Runs of pushBytes calls, over the two dataset markers and a payload byte,
\* with calls of reset() on the stand-alone extractor in between.
Reset ==
    /\ Len(resets) < MaxResets
    /\ de' = DE_reset(de)
    /\ resets' = Append(resets, [pushed |-> Len(chunks),
                                 emitted |-> Len(de.datasets)])
    /\ UNCHANGED <<chunks, tu, tuCached, ret, viewVars, horodateVars, valueVars, callVars, crcVars, stringVars>>

PushExtractor ==
    \E buffer \in Buffers({LF, CR, 65}, MaxExtractorLen - Len(Stream)) :
        Push(buffer)

NextExtractor == PushExtractor \/ Reset

SpecExtractor == Init /\ [][NextExtractor]_vars

\* --------------------------------------------------------------------- C14
\* a run of pushBytes calls on extractor d: the extractor afterwards, and the
\* value returned by the last call
RECURSIVE DE_pushAll(_, _)
DE_pushAll(run, buffers) ==
    IF buffers = <<>> THEN run
    ELSE DE_pushAll(DE_pushBytes(run.d, Head(buffers)), Tail(buffers))

\* the buffers pushed since the last reset()
SinceReset ==
    SubSeq(chunks, resets[Len(resets)].pushed + 1, Len(chunks))

\* C14: reset() puts the extractor back in its state of construction: it is
\* out of sync, the dataset in progress is dropped without being handed
\* over, and the pushBytes calls made since hand over the same datasets and
\* return the same values as they do on an extractor just built.
C14_ResetRestoresInitialState ==
    resets # <<>> =>
        LET fresh == DE_pushAll([d |-> DatasetExtractor, used |-> 0], SinceReset)
            before == resets[Len(resets)].emitted
        IN /\ DE_isInSync(de) = DE_isInSync(fresh.d)
           /\ de.currentDataset = fresh.d.currentDataset
           /\ Len(de.datasets) = before + Len(fresh.d.datasets)
           /\ SubSeq(de.datasets, before + 1, Len(de.datasets)) = fresh.d.datasets
           /\ SinceReset # <<>> => ret.de = fresh.used

C14_Witness ==
    /\ Len(chunks) = 2 /\ Len(resets) = 1
    /\ chunks[1] = <<LF, 65>>
    /\ resets[1].pushed = 1
    /\ chunks[2] = <<LF, CR>>
    /\ de.datasets = << <<>> >>

RECURSIVE FramesWithDatasets(_, _, _, _)
FramesWithDatasets(calls, d, payload, done) ==
    IF calls = <<>>
    THEN Append(done, [payload |-> payload, datasets |-> d.datasets])
    ELSE IF Head(calls).kind = "bytes"
         THEN FramesWithDatasets(Tail(calls), DE_pushBytes(d, Head(calls).data).d,
                                 payload \o Head(calls).data, done)
         ELSE FramesWithDatasets(
                 Tail(calls), DatasetExtractor, <<>>,
                 Append(done, [payload |-> payload, datasets |-> d.datasets]))

IsSliceOf(s, t) ==
    \E i \in 1..(Len(t) + 1 - Len(s)) : SubSeq(t, i, i + Len(s) - 1) = s

DatasetsWithinFrames(u) ==
    LET frames == FramesWithDatasets(u.calls, DatasetExtractor, <<>>, <<>>)
    IN /\ u.context.datasets =
             Flatten([k \in 1..Len(frames) |-> frames[k].datasets])
       /\ \A k \in 1..Len(frames) : \A j \in 1..Len(frames[k].datasets) :
             IsSliceOf(frames[k].datasets[j], frames[k].payload)

RECURSIVE DatasetsLfClosing(_, _)
DatasetsLfClosing(r, stream) ==
    IF stream = <<>> THEN r
    ELSE DatasetsLfClosing(
            IF Head(stream) \in {LF, CR}
            THEN ExpectedAfterMarker(r, Head(stream), FALSE)
            ELSE ExpectedAfterPayload(r, <<Head(stream)>>),
            Tail(stream))

\* C17: an LF received inside a dataset closes it, whatever else is in the
\* buffer: the dataset handed over holds the bytes received before that LF,
\* and the extractor is then out of sync until a later LF.
C17_LfClosesDataset ==
    LET claimed == DatasetsLfClosing(NothingExpected, Stream)
    IN /\ de.datasets = claimed.datasets
       /\ DE_isInSync(de) = claimed.sync

\* --------------------------------------------------------------------- C18
FrameMarkers == {p \in 1..Len(Stream) : Stream[p] \in {STX, ETX}}

LastFrameMarker == CHOOSE p \in FrameMarkers : \A q \in FrameMarkers : q <= p

\* C18: whatever the chunking, isInSync() is true exactly when the stream
\* holds an STX and the last of its STX and ETX bytes is an STX.
C18_SyncIffLastMarkerIsStx ==
    LET expected == FrameMarkers # {} /\ Stream[LastFrameMarker] = STX
    IN /\ isInSync(tu) = expected
       /\ isInSync(tuCached) = expected

C18_Witness ==
    /\ chunks = << <<STX, 65>>, <<STX, ETX, STX>> >>
    /\ isInSync(tu) /\ isInSync(tuCached)
    /\ Len(CompleteCalls(tu)) = 1

\* ------------------------------------------------- building a DatasetView
\* The buffer a view is built over: up to MaxViewLen bytes, made of the two
\* delimiters and three bytes that are none ('A', 'B', '6'), with or without
\* an LF ahead and a CR behind.
\* TIC::DatasetView dv(datasetBuf, datasetBufSz), once in a run
Construct ==
    /\ dv = NotBuilt
    /\ \E lf \in {<<>>, <<LF>>}, cr \in {<<>>, <<CR>>} :
          \E n \in 0..(MaxViewLen - Len(lf) - Len(cr)) :
             \E body \in [1..n -> {HT, SP, 65, 66, 54}] :
                LET datasetBuf == lf \o body \o cr
                IN /\ dataset' = datasetBuf
                   /\ dv' = DatasetView(datasetBuf)
    /\ UNCHANGED <<dvLf, fields, streamVars, horodateVars, valueVars, callVars, crcVars, stringVars>>

NextView == Construct

SpecView == Init /\ [][NextView]_vars

\* --------------------------------------------------------------------- C19
\* where the dataset starts once an LF at its head is set aside
AfterLf(b) == IF b[1] = LF THEN 1 ELSE 0

\* the dataset less an LF at its head and a CR at its end
Unwrapped(b) ==
    LET t == SubSeq(b, AfterLf(b) + 1, Len(b))
    IN IF t[Len(t)] = CR THEN SubSeq(t, 1, Len(t) - 1) ELSE t

\* C19: for a buffer of 5 bytes or more, once an LF at its head and a CR at
\* its end are set aside, the byte just before the last one (the checksum)
\* decides the dialect: the view is ValidStandard only if it is an HT,
\* ValidHistorical only if it is an SP, and Malformed if it is neither.
C19_DialectSelection ==
    (dv # NotBuilt /\ Len(dataset) >= 5) =>
        LET u == Unwrapped(dataset)
            selector == u[Len(u) - 1]
        IN /\ dv.decodedType = "ValidStandard" => selector = HT
           /\ dv.decodedType = "ValidHistorical" => selector = SP
           /\ selector \notin {HT, SP} => dv.decodedType = "Malformed"

C19_Witness ==
    /\ dataset = <<LF, 66, HT, 66, HT, 54, CR>>
    /\ dv # NotBuilt
    /\ dv.decodedType = "ValidStandard"

\* --------------------------------------------------------------------- C20
\* C20: in a valid view, label, delimiters, horodate and data make one run
\* of consecutive bytes of the buffer, from labelBuffer to the byte before
\* the delimiter that precedes the checksum; the sum of these bytes (and of
\* that HT delimiter in a standard dataset), masked by 0x3F and added to
\* 0x20, is the checksum byte.
C20_ChecksumSoundness ==
    isValid(dv) =>
        LET u == Unwrapped(dataset)
            checksum == u[Len(u)]
            end == dv.dataBuffer + dv.dataSz
            total == SumBytes(SubSeq(dataset, dv.labelBuffer + 1, end))
                        + (IF dv.decodedType = "ValidStandard" THEN HT ELSE 0)
        IN /\ dv.labelBuffer = AfterLf(dataset)
           /\ dv.labelBuffer + dv.labelSz < dv.dataBuffer
           /\ end = AfterLf(dataset) + Len(u) - 2
           /\ (total % 64) + 32 = checksum

C20_Witness ==
    /\ dataset = <<66, HT, 66, HT, 66, HT, 65>>
    /\ dv # NotBuilt
    /\ dv.decodedType = "ValidStandard"
    /\ dv.labelSz = 1 /\ dv.dataBuffer = 4 /\ dv.dataSz = 1

\* --------------------------------------------------------------------- C21
\* C21: whatever the buffer and its length, a view that is Malformed or
\* WrongCRC has labelSz = 0 and dataSz = 0.
C21_NonValidViewsAreEmpty ==
    (dv # NotBuilt /\ dv.decodedType \in {"Malformed", "WrongCRC"}) =>
        (dv.labelSz = 0 /\ dv.dataSz = 0)

\* ------------------------------------- a dataset put together from fields
\* ASCII digits from their values
Ascii(digits) == [i \in 1..Len(digits) |-> digits[i] + 48]

\* the bytes of a dataset, less its checksum and the delimiter ahead of it
Body(label, horodate, data, delimiter) ==
    label \o <<delimiter>>
          \o (IF horodate = <<>> THEN <<>> ELSE horodate \o <<delimiter>>)
          \o data

\* label, optional horodate and data, each followed by the delimiter, then
\* the checksum: the sum of the bytes up to the data (and of the last HT of
\* a standard dataset), masked by 0x3F and added to 0x20
Encoded(label, horodate, data, delimiter) ==
    LET body == Body(label, horodate, data, delimiter)
        window == IF delimiter = HT THEN body \o <<HT>> ELSE body
    IN body \o <<delimiter, (SumBytes(window) % 64) + 32>>

\* "H101112010203", "e250229246060", " 081225223518" and thirteen 'A'
SampleHorodates ==
    { <<72>> \o Ascii(<<1, 0, 1, 1, 1, 2, 0, 1, 0, 2, 0, 3>>),
      <<101>> \o Ascii(<<2, 5, 0, 2, 2, 9, 2, 4, 6, 0, 6, 0>>),
      <<SP>> \o Ascii(<<0, 8, 1, 2, 2, 5, 2, 2, 3, 5, 1, 8>>),
      [i \in 1..HORODATE_SIZE |-> 65] }

\* the bytes of labels and data: the four bytes a view looks for, 'A' and
\* a byte above 0x7F
FieldBytes == {LF, CR, HT, SP, 65, 233}

NoneOf(bytes, excluded) == \A i \in 1..Len(bytes) : bytes[i] \notin excluded

\* TIC::DatasetView dv(datasetBuf, datasetBufSz) over a buffer made of a
\* label, an optional horodate, data and a checksum, none of the three
\* holding the delimiter; the data may be empty after a horodate
ConstructEncoded ==
    /\ dv = NotBuilt
    /\ \E delimiter \in {HT, SP}, ll \in 1..MaxFieldLen, dl \in 0..MaxFieldLen :
          \E label \in [1..ll -> FieldBytes \ {delimiter}],
             data \in [1..dl -> FieldBytes \ {delimiter}],
             horodate \in {<<>>} \cup SampleHorodates :
                /\ NoneOf(horodate, {delimiter})
                /\ horodate = <<>> => data # <<>>
                /\ fields' = [label |-> label, horodate |-> horodate,
                              data |-> data, delimiter |-> delimiter]
                /\ dataset' = Encoded(label, horodate, data, delimiter)
                /\ dv' = DatasetView(dataset')
    /\ UNCHANGED <<dvLf, streamVars, horodateVars, valueVars, callVars, crcVars, stringVars>>

NextEncoded == ConstructEncoded

SpecEncoded == Init /\ [][NextEncoded]_vars

\* the bytes a view exposes as its label and as its data
LabelOf(v) == SubSeq(dataset, v.labelBuffer + 1, v.labelBuffer + v.labelSz)

DataOf(v) == SubSeq(dataset, v.dataBuffer + 1, v.dataBuffer + v.dataSz)

ValidTypeOf(delimiter) ==
    IF delimiter = HT THEN "ValidStandard" ELSE "ValidHistorical"

\* --------------------------------------------------------------------- C22
\* C22: a dataset made of a non-empty label and non-empty data holding no
\* SP, HT, LF or CR, each followed by the delimiter, and of the checksum of
\* its window, decodes as a valid view of the delimiter's dialect, with that
\* label, that data and no valid horodate.
C22_RoundTrip ==
    (/\ fields # NoFields
     /\ fields.horodate = <<>>
     /\ NoneOf(fields.label, {SP, HT, LF, CR})
     /\ NoneOf(fields.data, {SP, HT, LF, CR})) =>
        /\ dv.decodedType = ValidTypeOf(fields.delimiter)
        /\ LabelOf(dv) = fields.label
        /\ DataOf(dv) = fields.data
        /\ ~dv.horodate.isValid

C22_Witness ==
    /\ fields # NoFields
    /\ fields.horodate = <<>>
    /\ fields.label = <<65, 233>> /\ fields.data = <<233, 65>>
    /\ fields.delimiter = SP
    /\ dv.decodedType = "ValidHistorical"
    /\ dv.labelSz = 2 /\ dv.dataBuffer = 3 /\ dv.dataSz = 2

\* --------------------------------------------------------------------- C23
\* C23 as claimed: a dataset made of a non-empty label, a 13-byte horodate
\* and data (empty or not), none holding the delimiter, with its checksum,
\* decodes as a valid view with that label, that data and the horodate
\* fromLabelBytes reads in the 13 bytes.
C23_HorodateAndData ==
    (fields # NoFields /\ fields.horodate # <<>>) =>
        /\ dv.decodedType = ValidTypeOf(fields.delimiter)
        /\ LabelOf(dv) = fields.label
        /\ DataOf(dv) = fields.data
        /\ dv.horodate = fromLabelBytes(fields.horodate)

\* C23 amended: the same, for a label that does not begin with an LF.
C23_HorodateAndDataNoLeadingLf ==
    (/\ fields # NoFields
     /\ fields.horodate # <<>>
     /\ fields.label[1] # LF) =>
        /\ dv.decodedType = ValidTypeOf(fields.delimiter)
        /\ LabelOf(dv) = fields.label
        /\ DataOf(dv) = fields.data
        /\ dv.horodate = fromLabelBytes(fields.horodate)

C23_Witness ==
    /\ fields # NoFields
    /\ fields.label = <<65, LF>> /\ fields.data = <<>>
    /\ fields.delimiter = HT
    /\ fields.horodate[1] = 72
    /\ dv.decodedType = "ValidStandard"
    /\ dv.labelSz = 2 /\ dv.dataSz = 0
    /\ dv.horodate.isValid /\ dv.horodate.year = 2010

\* ------------------------------- a view over d and a view over LF then d
\* TIC::DatasetView dv(datasetBuf, datasetBufSz) over a buffer of up to
\* MaxViewLen bytes, and a second view over TIC::DatasetExtractor's
\* START_MARKER followed by the same bytes
ConstructWithLf ==
    /\ dv = NotBuilt
    /\ \E n \in 0..MaxViewLen :
          \E d \in [1..n -> {LF, HT, SP, 65, 54}] :
             /\ dataset' = d
             /\ dv' = DatasetView(d)
             /\ dvLf' = DatasetView(<<DE_START_MARKER>> \o d)
    /\ UNCHANGED <<fields, streamVars, horodateVars, valueVars, callVars, crcVars, stringVars>>

NextLeadingLf == ConstructWithLf

SpecLeadingLf == Init /\ [][NextLeadingLf]_vars

\* the bytes a view built over buffer exposes as its label and as its data
LabelIn(buffer, v) ==
    SubSeq(buffer, v.labelBuffer + 1, v.labelBuffer + v.labelSz)

DataIn(buffer, v) ==
    SubSeq(buffer, v.dataBuffer + 1, v.dataBuffer + v.dataSz)

\* --------------------------------------------------------------------- C24
\* C24: for every buffer d, the view built over an LF followed by d has the
\* decoded type, the label bytes, the data bytes and the horodate of the
\* view built over d alone.
C24_LeadingLfTolerated ==
    dvLf # NotBuilt =>
        /\ dvLf.decodedType = dv.decodedType
        /\ LabelIn(<<LF>> \o dataset, dvLf) = LabelIn(dataset, dv)
        /\ DataIn(<<LF>> \o dataset, dvLf) = DataIn(dataset, dv)
        /\ dvLf.horodate = dv.horodate

\* the same for the buffers of 5 bytes or more that do not begin with an LF
\* and whose views are not Malformed
C24_LeadingLfToleratedWhenParsed ==
    (/\ dvLf # NotBuilt
     /\ Len(dataset) >= 5
     /\ dataset[1] # LF
     /\ dv.decodedType # "Malformed") =>
        /\ dvLf.decodedType = dv.decodedType
        /\ LabelIn(<<LF>> \o dataset, dvLf) = LabelIn(dataset, dv)
        /\ DataIn(<<LF>> \o dataset, dvLf) = DataIn(dataset, dv)
        /\ dvLf.horodate = dv.horodate

\* ------------------------------------------------ parsing one horodate
\* the two bytes of a field: decimal pairs at and around the limits of the
\* field, and pairs with a byte next to the digits ('/' and ':')
YearPairs == {Ascii(<<0, 0>>), Ascii(<<9, 9>>), <<47, 48>>}

MonthPairs ==
    {Ascii(<<0, 0>>), Ascii(<<0, 1>>), Ascii(<<1, 2>>), Ascii(<<1, 3>>),
     <<49, 58>>}

DayPairs ==
    {Ascii(<<0, 0>>), Ascii(<<0, 1>>), Ascii(<<3, 1>>), Ascii(<<3, 2>>)}

HourPairs == {Ascii(<<0, 0>>), Ascii(<<2, 4>>), Ascii(<<2, 5>>)}

MinutePairs == {Ascii(<<0, 0>>), Ascii(<<5, 9>>), Ascii(<<6, 0>>)}

SecondPairs ==
    {Ascii(<<0, 0>>), Ascii(<<5, 9>>), Ascii(<<6, 0>>), <<53, 47>>}

\* 'H', 'h', 'E', 'e', ' ', and two bytes that name no season ('A', '0')
SeasonBytes == {72, 104, 69, 101, SP, 65, 48}

\* TIC::Horodate::fromLabelBytes(bytes, count), once in a run, over a season
\* byte and six pairs, whole (13 bytes), one byte short or one byte long
Parse ==
    /\ horodate1 = NotParsed
    /\ \E season \in SeasonBytes, yy \in YearPairs, mo \in MonthPairs,
          dd \in DayPairs, hh \in HourPairs, mi \in MinutePairs,
          ss \in SecondPairs :
          \E count \in {HORODATE_SIZE - 1, HORODATE_SIZE, HORODATE_SIZE + 1} :
             LET bytes == SubSeq(<<season>> \o yy \o mo \o dd \o hh \o mi
                                             \o ss \o <<48>>, 1, count)
             IN /\ bytes1' = bytes
                /\ horodate1' = fromLabelBytes(bytes)
    /\ UNCHANGED <<bytes2, horodate2, cmp, streamVars, viewVars, valueVars, callVars, crcVars, stringVars>>

NextHorodate == Parse

SpecHorodate == Init /\ [][NextHorodate]_vars

IsDigit(byte) == byte >= 48 /\ byte <= 57

\* the decimal value of the two bytes at i and i + 1
Decimal(bytes, i) == 10 * (bytes[i] - 48) + (bytes[i + 1] - 48)

\* --------------------------------------------------------------------- C25
\* C25: fromLabelBytes returns a valid horodate exactly when it is handed 13
\* bytes, the first of which is 'H', 'h', 'E', 'e' or ' ' and the twelve
\* others digits, with a month in 1..12, a day in 1..31, an hour of at most
\* 24, a minute and a second below 60; the year is then 2000 + YY.
C25_HorodateValidity ==
    horodate1 # NotParsed =>
        LET wellFormed ==
                /\ Len(bytes1) = 13
                /\ bytes1[1] \in {72, 104, 69, 101, 32}
                /\ \A i \in 2..13 : IsDigit(bytes1[i])
                /\ Decimal(bytes1, 4) \in 1..12
                /\ Decimal(bytes1, 6) \in 1..31
                /\ Decimal(bytes1, 8) <= 24
                /\ Decimal(bytes1, 10) < 60
                /\ Decimal(bytes1, 12) < 60
        IN /\ horodate1.isValid <=> wellFormed
           /\ wellFormed => horodate1.year = 2000 + Decimal(bytes1, 2)

C25_Witness ==
    /\ horodate1 # NotParsed
    /\ bytes1 = <<101>> \o Ascii(<<9, 9, 1, 2, 3, 1, 2, 4, 5, 9, 5, 9>>)
    /\ horodate1.isValid
    /\ horodate1.year = 2099 /\ horodate1.hour = 24

\* --------------------------------------------------------------------- C26
\* C26: when fromLabelBytes rejects 13 bytes, each of year, month, day,
\* hour, minute and second whose own two bytes are digits holds the value
\* of these two bytes (2000 more for the year).
C26_ParsedFieldsPreserved ==
    (horodate1 # NotParsed /\ Len(bytes1) = 13 /\ ~horodate1.isValid) =>
        LET digits(i) == IsDigit(bytes1[i]) /\ IsDigit(bytes1[i + 1])
        IN /\ digits(2) => horodate1.year = 2000 + Decimal(bytes1, 2)
           /\ digits(4) => horodate1.month = Decimal(bytes1, 4)
           /\ digits(6) => horodate1.day = Decimal(bytes1, 6)
           /\ digits(8) => horodate1.hour = Decimal(bytes1, 8)
           /\ digits(10) => horodate1.minute = Decimal(bytes1, 10)
           /\ digits(12) => horodate1.second = Decimal(bytes1, 12)

\* --------------------------------------------------------------------- C27
\* C27: of 13 bytes, the first decides season and degraded clock: 'H' is
\* winter, 'h' winter with a degraded clock, 'E' summer, 'e' summer with a
\* degraded clock, ' ' an unknown season with a clock that is not degraded;
\* any other byte gives the season Malformed and a horodate that is not
\* valid.
C27_SeasonDecoding ==
    (horodate1 # NotParsed /\ Len(bytes1) = 13) =>
        LET is(season, degraded) ==
                horodate1.season = season /\ horodate1.degradedTime = degraded
        IN /\ bytes1[1] = 72 => is("Winter", FALSE)
           /\ bytes1[1] = 104 => is("Winter", TRUE)
           /\ bytes1[1] = 69 => is("Summer", FALSE)
           /\ bytes1[1] = 101 => is("Summer", TRUE)
           /\ bytes1[1] = 32 => is("Unknown", FALSE)
           /\ bytes1[1] \notin {72, 104, 69, 101, 32} =>
                 horodate1.season = "Malformed" /\ ~horodate1.isValid

C27_Witness ==
    /\ horodate1 # NotParsed
    /\ bytes1 = <<104>> \o Ascii(<<0, 0, 0, 1, 0, 1, 0, 0, 0, 0, 0, 0>>)
    /\ horodate1.season = "Winter" /\ horodate1.degradedTime
    /\ horodate1.isValid

\* ------------------------------------------------ comparing two horodates
\* The comparison operators of TIC::Horodate, as the specification of the
\* decoder describes them: equality on year, month, day, hour, minute and
\* second, order on the same six fields, the first that differs deciding.

\* a slip: the order stops at the minute
operatorLt_IgnoresSecond(lhs, rhs) ==
    IF lhs.year # rhs.year THEN lhs.year < rhs.year
    ELSE IF lhs.month # rhs.month THEN lhs.month < rhs.month
    ELSE IF lhs.day # rhs.day THEN lhs.day < rhs.day
    ELSE IF lhs.hour # rhs.hour THEN lhs.hour < rhs.hour
    ELSE lhs.minute < rhs.minute

operatorEq(lhs, rhs) ==
    /\ lhs.year = rhs.year /\ lhs.month = rhs.month /\ lhs.day = rhs.day
    /\ lhs.hour = rhs.hour /\ lhs.minute = rhs.minute
    /\ lhs.second = rhs.second

operatorNe(lhs, rhs) == ~operatorEq(lhs, rhs)

operatorLt(lhs, rhs) ==
    IF lhs.year # rhs.year THEN lhs.year < rhs.year
    ELSE IF lhs.month # rhs.month THEN lhs.month < rhs.month
    ELSE IF lhs.day # rhs.day THEN lhs.day < rhs.day
    ELSE IF lhs.hour # rhs.hour THEN lhs.hour < rhs.hour
    ELSE IF lhs.minute # rhs.minute THEN lhs.minute < rhs.minute
    ELSE lhs.second < rhs.second

operatorGt(lhs, rhs) == operatorLt(rhs, lhs)

operatorLe(lhs, rhs) == operatorLt(lhs, rhs) \/ operatorEq(lhs, rhs)

operatorGe(lhs, rhs) == operatorGt(lhs, rhs) \/ operatorEq(lhs, rhs)

\* the horodates compared: "H081225223518" of the tests, with each field as
\* it is or one more, under three season bytes ('A' names no season)
ComparedHorodates ==
    { <<season>> \o Ascii(<<0, 8 + f[1], 1, 1 + f[2], 2, 5 + f[3],
                            2, 2 + f[4], 3, 5 + f[5], 1, 8 + f[6]>>) :
        season \in {72, 101, 65}, f \in [1..6 -> {0, 1}] }

\* two calls of fromLabelBytes, then the six operators on the two horodates
Compare ==
    /\ cmp = NotCompared
    /\ \E b1 \in ComparedHorodates, b2 \in ComparedHorodates :
          LET h1 == fromLabelBytes(b1)
              h2 == fromLabelBytes(b2)
          IN /\ bytes1' = b1 /\ horodate1' = h1
             /\ bytes2' = b2 /\ horodate2' = h2
             /\ cmp' = [eq |-> operatorEq(h1, h2), ne |-> operatorNe(h1, h2),
                        lt |-> operatorLt(h1, h2), le |-> operatorLe(h1, h2),
                        gt |-> operatorGt(h1, h2), ge |-> operatorGe(h1, h2)]
    /\ UNCHANGED <<streamVars, viewVars, valueVars, callVars, crcVars, stringVars>>

NextCompare == Compare

SpecCompare == Init /\ [][NextCompare]_vars

\* year, month, day, hour, minute and second, in this order
Stamp(h) == <<h.year, h.month, h.day, h.hour, h.minute, h.second>>

\* --------------------------------------------------------------------- C28
\* C28: the comparison of two horodates reads only their year, month, day,
\* hour, minute and second, in lexicographic order: == holds exactly when
\* the six fields are equal, whatever the seasons and degraded flags; < when
\* the first field that differs is smaller; exactly one of <, == and >
\* holds; <=, >= and != are the complements of >, < and ==.
C28_HorodateComparison ==
    cmp # NotCompared =>
        LET s1 == Stamp(horodate1)
            s2 == Stamp(horodate2)
            less == \E k \in 1..6 : /\ s1[k] < s2[k]
                                    /\ \A j \in 1..(k - 1) : s1[j] = s2[j]
        IN /\ cmp.eq <=> (s1 = s2)
           /\ cmp.lt <=> less
           /\ (cmp.lt /\ ~cmp.eq /\ ~cmp.gt)
                \/ (~cmp.lt /\ cmp.eq /\ ~cmp.gt)
                \/ (~cmp.lt /\ ~cmp.eq /\ cmp.gt)
           /\ cmp.le <=> ~cmp.gt
           /\ cmp.ge <=> ~cmp.lt
           /\ cmp.ne <=> ~cmp.eq

C28_Witness ==
    /\ cmp # NotCompared
    /\ bytes1 = <<72>> \o Ascii(<<0, 8, 1, 2, 2, 5, 2, 2, 3, 5, 1, 8>>)
    /\ bytes2 = <<101>> \o Ascii(<<0, 8, 1, 2, 2, 5, 2, 2, 3, 5, 1, 9>>)
    /\ horodate1.season # horodate2.season
    /\ cmp.lt /\ cmp.le /\ cmp.ne /\ ~cmp.eq /\ ~cmp.gt /\ ~cmp.ge

\* ------------------------------------------------ converting one value
\* "429496729": (uint32_t)-1 less its last digit
MaxPrefix == Ascii(<<4, 2, 9, 4, 9, 6, 7, 2, 9>>)

\* uint32FromValueBuffer(buf, cnt), once in a run, over up to
\* MaxLeadingZeros '0', a prefix of "429496729" and up to MaxTailLen bytes
\* among five digits and the two bytes next to the digits ('/' and ':')
Convert ==
    /\ value = NotConverted
    /\ \E zeros \in 0..MaxLeadingZeros, p \in 0..Len(MaxPrefix),
          t \in 0..MaxTailLen :
          \E tail \in [1..t -> {48, 52, 53, 54, 57, 47, 58}] :
             LET buf == [i \in 1..zeros |-> 48] \o SubSeq(MaxPrefix, 1, p)
                                               \o tail
             IN /\ valueBuf' = buf
                /\ value' = uint32FromValueBuffer(buf)
    /\ UNCHANGED <<streamVars, viewVars, horodateVars, callVars, crcVars, stringVars>>

NextValue == Convert

SpecValue == Init /\ [][NextValue]_vars

\* the decimal digits of a number held in two halves, without leading zeros
RECURSIVE ToDecimal(_)
ToDecimal(x) ==
    IF x.hi = 0 /\ x.lo = 0 THEN <<>>
    ELSE ToDecimal(Div10(x)) \o <<((x.hi % 10) * (Half % 10) + x.lo) % 10>>

\* the digits of a buffer of ASCII digits, without leading zeros
RECURSIVE Significant(_)
Significant(buf) ==
    IF buf = <<>> THEN <<>>
    ELSE IF Head(buf) = 48 THEN Significant(Tail(buf))
    ELSE [i \in 1..Len(buf) |-> buf[i] - 48]

\* s, a sequence of digits without leading zeros, is at most t, another
AtMost(s, t) ==
    \/ Len(s) < Len(t)
    \/ /\ Len(s) = Len(t)
       /\ \/ s = t
          \/ \E k \in 1..Len(s) : /\ s[k] < t[k]
                                  /\ \A j \in 1..(k - 1) : s[j] = t[j]

\* --------------------------------------------------------------------- C29
\* C29: uint32FromValueBuffer returns the value written in the buffer when
\* the buffer holds digits only and this value is at most 4294967294
\* (leading zeros allowed, any length), and 4294967295 when the buffer holds
\* another byte or a value of 4294967295 or more.
C29_Uint32FromValueBuffer ==
    value # NotConverted =>
        LET allDigits == \A i \in 1..Len(valueBuf) : IsDigit(valueBuf[i])
            written == Significant(valueBuf)
            inRange == AtMost(written, <<4, 2, 9, 4, 9, 6, 7, 2, 9, 4>>)
        IN IF allDigits /\ inRange
           THEN ToDecimal(value.result) = written
           ELSE ToDecimal(value.result) = <<4, 2, 9, 4, 9, 6, 7, 2, 9, 5>>

C29_Witness ==
    /\ value # NotConverted
    /\ valueBuf = Ascii(<<0, 4, 2, 9, 4, 9, 6, 7, 2, 9, 4>>)
    /\ value.result = [hi |-> 65535, lo |-> 65534]

\* --------------------------------------------------------------------- C30
\* C30: the accumulator is multiplied by 10 and a digit is added to it only
\* when the exact result is at most 2^32 - 1: no step of a conversion wraps
\* around 32 bits.
C30_NoWraparound ==
    value # NotConverted =>
        \A k \in 1..Len(value.steps) : ~Greater(value.steps[k], UINT32_MAX)

C30_Witness ==
    /\ value # NotConverted
    /\ valueBuf = Ascii(<<4, 2, 9, 4, 9, 6, 7, 2, 9, 0, 0>>)
    /\ Len(value.steps) = 20
    /\ value.steps[19] = [hi |-> 65535, lo |-> 65530]
    /\ value.result = UINT32_MAX

\* --------------------------------------------------------------------- C31
\* C31: in on-the-fly mode, once pushBytes has returned, every byte of the
\* stream that is no frame marker and came inside a frame (after an STX,
\* with no ETX since) has been handed to onNewFrameBytes, whether the frame
\* has been ended or not.
C31_NoLagOnTheFly ==
    \A p \in 1..Len(Stream) :
        (Stream[p] \notin {STX, ETX} /\ InsideFrameAt(p)) =>
            \E i \in 1..Len(tu.calls) :
                /\ tu.calls[i].kind = "bytes"
                /\ tu.calls[i].at <= p
                /\ p < tu.calls[i].at + Len(tu.calls[i].data)
                /\ tu.calls[i].data[p - tu.calls[i].at + 1] = Stream[p]

C31_Witness ==
    /\ chunks = << <<STX, 65>>, <<LF>>, <<65, CR>> >>
    /\ Len(BytesCalls(tu)) = 3
    /\ CompleteCalls(tu) = <<>>
    /\ tuCached.calls = <<>>

\* ------------------------- a dataset put together from three runs of bytes
\* the bytes of the runs: LF, the two delimiters and 'A'
RunBytes == {LF, HT, SP, 65}

\* TIC::DatasetView dv(datasetBuf, datasetBufSz) over a label, a middle run
\* and a rest, each followed by the delimiter, then the checksum; label and
\* middle run hold no delimiter, the rest may; each run may be empty, and
\* the middle run is of any content or one of the sample horodates
ConstructRuns ==
    /\ dv = NotBuilt
    /\ \E delimiter \in {HT, SP}, ll \in 0..MaxRunLen, ml \in 0..MaxRunLen,
          rl \in 0..MaxRunLen :
          \E label \in [1..ll -> RunBytes \ {delimiter}],
             middle \in [1..ml -> RunBytes \ {delimiter}] \cup SampleHorodates,
             rest \in [1..rl -> RunBytes] :
                /\ NoneOf(middle, {delimiter})
                /\ fields' = [label |-> label, middle |-> middle,
                              rest |-> rest, delimiter |-> delimiter]
                /\ dataset' = Encoded(label \o <<delimiter>> \o middle, <<>>,
                                      rest, delimiter)
                /\ dv' = DatasetView(dataset')
    /\ UNCHANGED <<dvLf, streamVars, horodateVars, valueVars, callVars, crcVars, stringVars>>

NextRuns == ConstructRuns

SpecRuns == Init /\ [][NextRuns]_vars

\* the byte that precedes the checksum, the checksum, and the bytes ahead
\* of both, once an LF at the head and a CR at the end are set aside
Selector(b) == Unwrapped(b)[Len(Unwrapped(b)) - 1]

Checksum(b) == Unwrapped(b)[Len(Unwrapped(b))]

Remainder(b) == SubSeq(Unwrapped(b), 1, Len(Unwrapped(b)) - 2)

\* the checksum window: for a standard dataset it includes the last HT
Window(b) ==
    IF Selector(b) = HT THEN Remainder(b) \o <<HT>> ELSE Remainder(b)

ChecksumCorrect(b) ==
    /\ Len(b) >= 5
    /\ Selector(b) \in {HT, SP}
    /\ (SumBytes(Window(b)) % 64) + 32 = Checksum(b)

\* the positions of byte c in s, and the n-th of them
Occurrences(s, c) == {i \in 1..Len(s) : s[i] = c}

Occurrence(s, c, n) ==
    CHOOSE i \in Occurrences(s, c) :
        Cardinality({j \in Occurrences(s, c) : j < i}) = n - 1

\* 13 bytes that make a valid horodate
WellFormedHorodate(bytes) ==
    /\ Len(bytes) = 13
    /\ bytes[1] \in {72, 104, 69, 101, 32}
    /\ \A i \in 2..13 : IsDigit(bytes[i])
    /\ Decimal(bytes, 4) \in 1..12
    /\ Decimal(bytes, 6) \in 1..31
    /\ Decimal(bytes, 8) <= 24
    /\ Decimal(bytes, 10) < 60
    /\ Decimal(bytes, 12) < 60

\* runs, a part of the dataset that starts where the label starts, holds two
\* delimiters or more: the view is valid, its horodate is not valid unless
\* the bytes between the first two delimiters make a valid horodate, and its
\* data are the bytes of runs after the second delimiter
ValidWhateverTheMiddle(runs) ==
    LET sep == Selector(dataset)
        first == Occurrence(runs, sep, 1)
        second == Occurrence(runs, sep, 2)
    IN Cardinality(Occurrences(runs, sep)) >= 2 =>
          /\ isValid(dv)
          /\ ~WellFormedHorodate(SubSeq(runs, first + 1, second - 1))
                => ~dv.horodate.isValid
          /\ dv.dataBuffer = AfterLf(dataset) + second
          /\ DataOf(dv) = SubSeq(runs, second + 1, Len(runs))

\* --------------------------------------------------------------------- C32
\* C32 as claimed: when the checksum is correct and the checksum window
\* holds a label, a separator, a middle run, a separator and a rest, the
\* view is valid whatever the middle run; its horodate is not valid when the
\* middle run is no valid horodate; its data are all the bytes after the
\* second separator.
C32_UnparsableHorodate ==
    (dv # NotBuilt /\ ChecksumCorrect(dataset)) =>
        ValidWhateverTheMiddle(Window(dataset))

\* C32 amended: the same, the label, the two separators, the middle run and
\* the rest being looked for in the bytes ahead of the delimiter that
\* precedes the checksum (the window less the last HT of a standard dataset).
C32_UnparsableHorodateAheadOfDelimiter ==
    (dv # NotBuilt /\ ChecksumCorrect(dataset)) =>
        ValidWhateverTheMiddle(Remainder(dataset))

C32_Witness ==
    /\ dv # NotBuilt
    /\ fields.label = <<65>> /\ fields.middle = <<LF, 65>>
    /\ fields.rest = <<65, HT>> /\ fields.delimiter = HT
    /\ ChecksumCorrect(dataset)
    /\ dv.decodedType = "ValidStandard"
    /\ ~dv.horodate.isValid
    /\ dv.dataBuffer = 5 /\ dv.dataSz = 2

\* --------------------------------------------------------------------- C33
\* the bytes ahead of the delimiter that precedes the checksum hold a
\* delimiter with at least one byte after it
Structured(b) ==
    LET r == Remainder(b)
        sep == Selector(b)
    IN /\ Len(b) >= 5
       /\ sep \in {HT, SP}
       /\ Occurrences(r, sep) # {}
       /\ Occurrence(r, sep, 1) < Len(r)

\* C33 as claimed: a view is WrongCRC only if the bytes before the checksum
\* hold a label, a separator and a non-empty remainder and the checksum
\* byte alone is wrong; a buffer without a separator after the label, or
\* with nothing after it, is Malformed whatever its checksum byte.
C33_WrongCrcOnlyWhenStructured ==
    dv # NotBuilt =>
        /\ dv.decodedType = "WrongCRC" =>
              (Structured(dataset) /\ ~ChecksumCorrect(dataset))
        /\ ~Structured(dataset) => dv.decodedType = "Malformed"

\* C33 amended: a view is WrongCRC exactly when the buffer has 5 bytes or
\* more, ends (before the checksum) with an HT or an SP, and the checksum
\* byte does not match, whatever the bytes ahead; it is Malformed exactly
\* when the buffer is shorter, or ends with another byte, or has a matching
\* checksum and no separator with a byte after it.
C33_WrongCrcBeforeStructure ==
    dv # NotBuilt =>
        LET delimited == Len(dataset) >= 5 /\ Selector(dataset) \in {HT, SP}
        IN /\ dv.decodedType = "WrongCRC"
                <=> (delimited /\ ~ChecksumCorrect(dataset))
           /\ dv.decodedType = "Malformed"
                <=> (~delimited
                       \/ (ChecksumCorrect(dataset) /\ ~Structured(dataset)))

C33_Witness ==
    /\ dv # NotBuilt
    /\ dataset = <<65, 65, 65, SP, 65>>
    /\ ~Structured(dataset)
    /\ dv.decodedType = "WrongCRC"

\* ------------------------------------- both buffers filled to capacity
\* Runs of pushBytes calls whose first buffer opens a frame and, inside it,
\* a dataset, and fills both buffers: an STX, an LF and payload bytes, one
\* byte short of MAX_FRAME_SIZE for the frame and far beyond
\* MAX_DATASET_SIZE for the dataset; the next buffers are that one again or
\* short buffers of end markers and of a payload byte ('B').
BothFill == <<STX, LF>> \o Run(65, MAX_FRAME_SIZE - 2)

BoundsBuffers ==
    IF chunks = <<>> THEN {BothFill}
    ELSE {BothFill} \cup Buffers({ETX, CR, 66}, 2)

PushBounds ==
    /\ Len(chunks) < MaxOverflowPushes
    /\ \E buffer \in BoundsBuffers : Push(buffer)

NextBounds == PushBounds

SpecBounds == Init /\ [][NextBounds]_vars

\* --------------------------------------------------------------------- C34
\* C34: a DatasetExtractor never holds more than MAX_DATASET_SIZE bytes and
\* a cached Unframer never more than MAX_FRAME_SIZE bytes; no dataset handed
\* to onDatasetExtracted is longer than MAX_DATASET_SIZE and no payload
\* handed to onNewFrameBytes in cached mode longer than MAX_FRAME_SIZE.
C34_BufferBounds ==
    /\ \A d \in {de, tu.context, tuCached.context} :
          /\ Len(d.currentDataset) <= MAX_DATASET_SIZE
          /\ \A k \in 1..Len(d.datasets) :
                Len(d.datasets[k]) <= MAX_DATASET_SIZE
    /\ Len(tuCached.currentFrame) <= MAX_FRAME_SIZE
    /\ \A i \in 1..Len(tuCached.calls) :
          Len(tuCached.calls[i].data) <= MAX_FRAME_SIZE

C34_Witness ==
    /\ chunks = <<BothFill, <<66, 66>>, <<66, CR>>, <<66, ETX>>>>
    /\ Len(de.datasets[1]) = MAX_DATASET_SIZE
    /\ de.currentDataset = <<>>
    /\ Len(tuCached.calls[1].data) = MAX_FRAME_SIZE
    /\ ret.tuCached = 1 /\ ret.de = 2

\* --------------------------------------------- the self-calls of pushBytes
\* One execution of the body of pushBytes, as far as its control goes: given
\* the sync flag and the buffer it is entered with, the sync flag it leaves
\* and, when it calls itself, the buffer it hands to that call.

\* a slip: sync is left set at an STX that ends a frame
pushBytesCall_StaysInSync(sync, buffer) ==
    LET len == Len(buffer)
        returns == [recurses |-> FALSE, sync |-> sync, buffer |-> <<>>]
    IN
    IF len = 0 THEN returns
    ELSE IF ~sync THEN
        LET firstStx == Memchr(buffer, START_MARKER) IN
        IF firstStx # 0
        THEN [recurses |-> TRUE, sync |-> TRUE,
              buffer |-> SubSeq(buffer, firstStx + 1, len)]
        ELSE returns
    ELSE
        LET etx == Memchr(buffer, END_MARKER)
            stx == IF etx = 0 THEN Memchr(buffer, START_MARKER) ELSE 0
        IN IF etx # 0 \/ stx # 0
           THEN LET leadingBytesInPreviousFrame == IF etx # 0 THEN etx ELSE stx - 1
                IN IF leadingBytesInPreviousFrame < len
                   THEN [recurses |-> TRUE, sync |-> etx = 0,
                         buffer |-> SubSeq(buffer,
                                           leadingBytesInPreviousFrame + 1, len)]
                   ELSE [returns EXCEPT !.sync = FALSE]
           ELSE returns

\* TIC::Unframer::pushBytes, lines 24-81
pushBytesCall(sync, buffer) ==
    LET len == Len(buffer)
        returns == [recurses |-> FALSE, sync |-> sync, buffer |-> <<>>]
    IN
    IF len = 0 THEN returns
    ELSE IF ~sync THEN
        LET firstStx == Memchr(buffer, START_MARKER) IN
        IF firstStx # 0
        THEN [recurses |-> TRUE, sync |-> TRUE,
              buffer |-> SubSeq(buffer, firstStx + 1, len)]
        ELSE returns
    ELSE
        LET etx == Memchr(buffer, END_MARKER)
            stx == IF etx = 0 THEN Memchr(buffer, START_MARKER) ELSE 0
        IN IF etx # 0 \/ stx # 0
           THEN LET leadingBytesInPreviousFrame == IF etx # 0 THEN etx ELSE stx - 1
                IN IF leadingBytesInPreviousFrame < len
                   THEN [recurses |-> TRUE, sync |-> FALSE,
                         buffer |-> SubSeq(buffer,
                                           leadingBytesInPreviousFrame + 1, len)]
                   ELSE [returns EXCEPT !.sync = FALSE]
           ELSE returns

\* TIC::DatasetExtractor::pushBytes, lines 12-78
DE_pushBytesCall(sync, buffer) ==
    LET len == Len(buffer)
        returns == [recurses |-> FALSE, sync |-> sync, buffer |-> <<>>]
    IN
    IF len = 0 THEN returns
    ELSE IF ~sync THEN
        LET firstStartOfDataset == Memchr(buffer, DE_START_MARKER) IN
        IF firstStartOfDataset # 0
        THEN [recurses |-> TRUE, sync |-> TRUE,
              buffer |-> SubSeq(buffer, firstStartOfDataset + 1, len)]
        ELSE returns
    ELSE
        LET endOfDataset == DE_endOfDataset(buffer) IN
        IF endOfDataset # 0
        THEN LET leadingBytesInPreviousDataset == endOfDataset
             IN IF leadingBytesInPreviousDataset < len
                THEN [recurses |-> TRUE, sync |-> FALSE,
                      buffer |-> SubSeq(buffer,
                                        leadingBytesInPreviousDataset + 1, len)]
                ELSE [returns EXCEPT !.sync = FALSE]
        ELSE returns

\* pushBytes(buffer, len) called on an Unframer or on a DatasetExtractor, in
\* sync or not, with a buffer of up to MaxCallLen bytes among the markers of
\* the object and a payload byte
Call ==
    /\ stack = NoCall
    /\ \E object \in {"Unframer", "DatasetExtractor"}, sync \in BOOLEAN,
          n \in 0..MaxCallLen :
          \E buffer \in [1..n -> IF object = "Unframer" THEN {STX, ETX, 65}
                                 ELSE {LF, CR, 65}] :
             stack' = [object |-> object, sync |-> sync, buffer |-> buffer,
                       entered |-> <<>>, returned |-> FALSE]
    /\ UNCHANGED <<streamVars, viewVars, horodateVars, valueVars, crcVars, stringVars>>

\* the body of pushBytes is run once: it returns, or calls itself; more
\* self-calls than twice the bytes of the buffer are not followed
Enter ==
    /\ stack # NoCall
    /\ ~stack.returned
    /\ Len(stack.entered) <= 2 * MaxCallLen + 1
    /\ LET body == IF stack.object = "Unframer"
                   THEN pushBytesCall(stack.sync, stack.buffer)
                   ELSE DE_pushBytesCall(stack.sync, stack.buffer)
       IN stack' = [stack EXCEPT
                      !.entered = Append(@, [sync |-> stack.sync,
                                             buffer |-> stack.buffer]),
                      !.sync = body.sync,
                      !.buffer = body.buffer,
                      !.returned = ~body.recurses]
    /\ UNCHANGED <<streamVars, viewVars, horodateVars, valueVars, crcVars, stringVars>>

NextCall == Call \/ Enter

SpecCall == Init /\ [][NextCall]_vars

\* the body of pushBytes runs to its end once entered
SpecCallFair == SpecCall /\ WF_vars(Enter)

\* the self-calls followed agree with pushBytes and DE_pushBytes on the
\* state the outer call leaves
CallsAgreeWithPushBytes ==
    (stack # NoCall /\ stack.returned) =>
        LET first == stack.entered[1]
        IN IF stack.object = "Unframer"
           THEN stack.sync = pushBytes([Unframer EXCEPT !.sync = first.sync],
                                       first.buffer, 0, TRUE).u.sync
           ELSE stack.sync =
                   DE_pushBytes([DatasetExtractor EXCEPT !.sync = first.sync],
                                first.buffer).d.sync

\* --------------------------------------------------------------------- C35
\* each self-call is handed a buffer strictly shorter than the one of its
\* caller, or the same buffer when its caller was in sync and it is not
EachCallShortens ==
    \A k \in 2..Len(stack.entered) :
        LET caller == stack.entered[k - 1]
            callee == stack.entered[k]
        IN \/ Len(callee.buffer) < Len(caller.buffer)
           \/ /\ callee.buffer = caller.buffer
              /\ caller.sync /\ ~callee.sync

\* C35: from every state and for every buffer, pushBytes of an Unframer and
\* of a DatasetExtractor returns after finitely many self-calls: each is
\* handed a strictly shorter buffer, or the same buffer with sync changed
\* from true to false, which the next self-call then shortens.
C35_PushBytesTerminates ==
    /\ []EachCallShortens
    /\ (stack # NoCall) ~> (stack # NoCall /\ stack.returned)

C35_Witness ==
    /\ stack.object = "Unframer"
    /\ stack.returned
    /\ Len(stack.entered) = 5
    /\ stack.entered[1] = [sync |-> TRUE, buffer |-> <<65, STX, STX>>]
    /\ stack.entered[2] = [sync |-> FALSE, buffer |-> <<STX, STX>>]
    /\ stack.entered[3] = [sync |-> TRUE, buffer |-> <<STX>>]
    /\ stack.entered[4] = [sync |-> FALSE, buffer |-> <<STX>>]

\* --------------------------------------------------------------------- C36
\* the byte at a 0-based offset; an offset outside the buffer yields no byte
\* of the input, written 256
ByteAt(datasetBuf, offset) ==
    IF offset \in 0..(Len(datasetBuf) - 1) THEN datasetBuf[offset + 1] ELSE 256

\* the offsets of size bytes from offset from
Span(from, size) == from..(from + size - 1)

\* a slip: two bytes are enough
TooShort_AcceptsTwo(datasetBufSz) == datasetBufSz < 2

\* line 132
TooShort(datasetBufSz) == datasetBufSz < 5

\* offset from the start of a region of the first byte equal to c, -1 for a
\* null result
MemchrAt(datasetBuf, from, size, c) ==
    LET hits == {k \in 0..(size - 1) : ByteAt(datasetBuf, from + k) = c}
    IN IF hits = {} THEN -1 ELSE CHOOSE k \in hits : \A h \in hits : k <= h

\* the offsets memchr reads: up to the byte found, the whole region otherwise
MemchrReads(datasetBuf, from, size, c) ==
    LET found == MemchrAt(datasetBuf, from, size, c)
    IN IF found = -1 THEN Span(from, size) ELSE Span(from, found + 1)

\* What the constructor does with its input, line by line: reads, the
\* 0-based offsets of the bytes it reads, and sizes, every value taken by
\* datasetBufSz, labelSz, dataSz and horodateSz on the way, as integers (a
\* subtraction that underflows its unsigned int shows as a negative size).
Accesses(datasetBuf) ==
    LET len == Len(datasetBuf) IN
    IF TooShort(len) THEN [reads |-> {}, sizes |-> {len}]
    ELSE
    LET start == IF ByteAt(datasetBuf, 0) = LF THEN 1 ELSE 0
        sz1 == len - start
        crcAt == start + sz1 - 1
        sz2 == sz1 - 1
        cr == ByteAt(datasetBuf, crcAt) = CR
        crcAt2 == start + sz2 - 1
        sz3 == IF cr THEN sz2 - 1 ELSE sz2
        crcByte == ByteAt(datasetBuf, IF cr THEN crcAt2 ELSE crcAt)
        delimAt == start + sz3 - 1
        delimiter == ByteAt(datasetBuf, delimAt)
        head == [reads |-> {0, crcAt, delimAt} \cup (IF cr THEN {crcAt2} ELSE {}),
                 sizes |-> {len, sz1, sz2, sz3}]
    IN
    IF delimiter # HT /\ delimiter # SP THEN head
    ELSE
    LET crcSz == IF delimiter = HT THEN sz3 ELSE sz3 - 1
        sz4 == sz3 - 1
        computedCrc ==
            computeCRC([i \in 1..crcSz |-> ByteAt(datasetBuf, start + i - 1)])
        checked == [reads |-> head.reads \cup Span(start, crcSz),
                    sizes |-> head.sizes \cup {crcSz, sz4}]
    IN
    IF computedCrc # crcByte THEN checked
    ELSE
    LET labelSz == MemchrAt(datasetBuf, start, sz4, delimiter)
        trailingBytes == start + labelSz + 1
        labelled ==
            [reads |-> checked.reads
                       \cup MemchrReads(datasetBuf, start, sz4, delimiter),
             sizes |-> checked.sizes]
    IN
    IF labelSz = -1 THEN labelled
    ELSE IF trailingBytes >= start + sz4
    THEN [labelled EXCEPT !.sizes = @ \cup {labelSz}]
    ELSE
    LET sz5 == sz4 - (trailingBytes - start)
        horodateSz == MemchrAt(datasetBuf, trailingBytes, sz5, delimiter)
        searched ==
            [reads |-> labelled.reads
                       \cup MemchrReads(datasetBuf, trailingBytes, sz5, delimiter),
             sizes |-> labelled.sizes \cup {labelSz, sz5}]
    IN
    IF horodateSz = -1 THEN searched
    ELSE [reads |-> searched.reads
                    \cup (IF horodateSz = HORODATE_SIZE
                          THEN Span(trailingBytes, HORODATE_SIZE) ELSE {}),
          sizes |-> searched.sizes
                    \cup {horodateSz, sz5 - horodateSz, sz5 - horodateSz - 1}]

\* the slice of size bytes at offset buffer lies within the input
SliceWithin(buffer, size, datasetBuf) ==
    /\ buffer >= 0
    /\ size >= 0
    /\ buffer + size <= Len(datasetBuf)

\* the sizes followed line by line end on the sizes of the view built
AccessesAgreeWithView ==
    (dv # NotBuilt /\ isValid(dv)) =>
        /\ dv.labelSz \in Accesses(dataset).sizes
        /\ dv.dataSz \in Accesses(dataset).sizes

\* C36: for every input buffer of every length, 0 included, the constructor
\* reads only bytes at offsets in [0, len), no size it computes falls below
\* zero, and the label and data slices of the view lie within the input.
C36_StaysWithinInput ==
    dv # NotBuilt =>
        /\ Accesses(dataset).reads \subseteq 0..(Len(dataset) - 1)
        /\ \A size \in Accesses(dataset).sizes : size >= 0
        /\ SliceWithin(dv.labelBuffer, dv.labelSz, dataset)
        /\ SliceWithin(dv.dataBuffer, dv.dataSz, dataset)

C36_Witness ==
    /\ dataset = <<LF, 65, SP, 65, SP, 66, CR>>
    /\ isValid(dv)
    /\ dv.labelBuffer = 1 /\ dv.labelSz = 1
    /\ dv.dataBuffer = 3 /\ dv.dataSz = 1
    /\ Accesses(dataset).reads = 0..6
    /\ Accesses(dataset).sizes = {7, 6, 5, 4, 3, 1}

\* --------------------------------------------------------------------- C37
\* C37: a valid dataset view always has a non-empty label: whenever
\* isValid() is true, labelSz >= 1.
C37_ValidViewHasLabel ==
    (dv # NotBuilt /\ isValid(dv)) => dv.labelSz >= 1

\* --------------------------------------------------------------------- C38
\* the longest byte sequence summed
MaxCrcLen == 3

\* bytes on both sides of each power of two the sum and the mask meet
CrcBytes == {0, 1, 63, 64, 128, 200, 255}

\* computeCRC(bytes, count), once in a run
ComputeCRC ==
    /\ crc = NotSummed
    /\ \E n \in 0..MaxCrcLen :
          \E bytes \in [1..n -> CrcBytes] :
             crc' = [bytes |-> bytes, result |-> computeCRC(bytes)]
    /\ UNCHANGED <<streamVars, viewVars, horodateVars, valueVars, callVars, stringVars>>

NextCrc == ComputeCRC

SpecCrc == Init /\ [][NextCrc]_vars

\* C38: for every byte sequence, computeCRC, which sums into a uint8_t that
\* wraps modulo 256, returns ((unbounded sum of the bytes) & 0x3F) + 0x20,
\* a value always in 0x20..0x5F.
C38_AccumulatorWidthIsHarmless ==
    crc # NotSummed =>
        /\ crc.result = (SumBytes(crc.bytes) % 64) + 32
        /\ crc.result \in 32..95

C38_Witness ==
    /\ crc # NotSummed
    /\ crc.bytes = <<255, 255, 200>>
    /\ SumBytes(crc.bytes) = 710
    /\ S1(crc.bytes) = 198
    /\ crc.result = 38

\* --------------------------------------------------------------------- C39
\* "Invalid horodate"
InvalidHorodate ==
    <<73, 110, 118, 97, 108, 105, 100, 32, 104, 111, 114, 111, 100, 97, 116, 101>>

\* " (winter)"
WinterSuffix == <<32, 40, 119, 105, 110, 116, 101, 114, 41>>

\* " (summer)"
SummerSuffix == <<32, 40, 115, 117, 109, 109, 101, 114, 41>>

\* '0' + ((n / unit) % 10)
DigitOf(n, unit) == 48 + ((n \div unit) % 10)

\* TIC::Horodate::toString(): "YYYY/MM/DD hh:mm:ss" and a suffix; the second
\* test of the season is on Season::Winter again, as in the source
toString(h) ==
    IF ~h.isValid THEN InvalidHorodate
    ELSE
    LET result ==
            <<DigitOf(h.year, 1000), DigitOf(h.year, 100), DigitOf(h.year, 10),
              DigitOf(h.year, 1), 47,
              DigitOf(h.month, 10), DigitOf(h.month, 1), 47,
              DigitOf(h.day, 10), DigitOf(h.day, 1), SP,
              DigitOf(h.hour, 10), DigitOf(h.hour, 1), 58,
              DigitOf(h.minute, 10), DigitOf(h.minute, 1), 58,
              DigitOf(h.second, 10), DigitOf(h.second, 1)>>
    IN IF h.season = "Winter" THEN result \o WinterSuffix
       ELSE IF h.season = "Winter" THEN result \o SummerSuffix
       ELSE result

\* horodate.toString(), once the horodate is parsed
CallToString ==
    /\ horodate1 # NotParsed
    /\ str = NoString
    /\ str' = toString(horodate1)
    /\ UNCHANGED <<streamVars, viewVars, horodateVars, valueVars, callVars, crcVars>>

NextString == Parse \/ CallToString

SpecString == Init /\ [][NextString]_vars

EndsWith(s, suffix) ==
    /\ Len(s) >= Len(suffix)
    /\ SubSeq(s, Len(s) - Len(suffix) + 1, Len(s)) = suffix

\* C39: toString() of a valid horodate names its season: the string ends
\* with " (winter)" when season is Winter, with " (summer)" when season is
\* Summer, and has no season suffix otherwise.
C39_ToStringNamesSeason ==
    (str # NoString /\ horodate1.isValid) =>
        /\ horodate1.season = "Winter" => EndsWith(str, WinterSuffix)
        /\ horodate1.season = "Summer" => EndsWith(str, SummerSuffix)
        /\ horodate1.season \notin {"Winter", "Summer"} =>
              /\ ~EndsWith(str, WinterSuffix)
              /\ ~EndsWith(str, SummerSuffix)

\* what holds of the code: the winter suffix is the only one ever appended
ToStringNamesWinterOnly ==
    (str # NoString /\ horodate1.isValid) =>
        /\ horodate1.season = "Winter" => EndsWith(str, WinterSuffix)
        /\ horodate1.season # "Winter" =>
              /\ Len(str) = 19
              /\ ~EndsWith(str, SummerSuffix)

====
